---- MODULE Spec2Model ----
(***************************************************************************)
(* Verification model of the ICU strain forecasting and alerting pipeline  *)
(* (scripts/build_alert_layer.py, build_forecast_layer.py,                 *)
(* build_features_layer.py, build_stress_features.py,                      *)
(* build_overload_predictions.py).                                         *)
(*                                                                         *)
(* Numbers.  The scripts compute on floats; the model computes exactly on  *)
(* a fixed-point grid: an occupancy, a prediction and an oxygen amount are *)
(* integers counting hundredths (0.9 is 90, 1.5 is 150, 40 units of oxygen *)
(* are 4000).  A mean over 4 values is kept as the sum of the 4 values     *)
(* (hundredths * 4), so that no division rounds.  NaN / NULL is the model  *)
(* value NaN; a table is the set of its rows.                              *)
(***************************************************************************)
EXTENDS Integers, Sequences, FiniteSets, TLC

VARIABLES
    fn_occ,        \* alert function harness: the raw occupancy handed to the per-hospital body
    fn_icu,        \* alert function harness: first argument of the severity merge
    fn_oxy,        \* alert function harness: second argument of the severity merge
    fn_out,        \* alert function harness: <<the fields computed from fn_occ>> (<<>> before)
    fn_merge,      \* alert function harness: <<merge(icu, oxy), merge(oxy, icu), merge(icu, icu)>>
    clean,         \* table ma_hospital_daily_clean: rows [hospital_pk, date, icu_occupancy_rate]
    forecast,      \* table ma_hospital_forecast: rows [hospital_pk, forecast_date, predicted_icu_occupancy]
    alerts,        \* table ma_hospital_alerts: rows keyed by (hospital_pk, date)
    occ_used,      \* alert layer: the pairs <<hospital_id, occupancy>> of its latest run, kept
                   \* while the tables that run read are unchanged
    features,      \* table ma_hospital_features: rows keyed by (hospital_pk, date)
    clean_b,       \* a second history of observations, compared with clean
    features_b,    \* the feature table built from clean_b
    feat_done,     \* the histories ("a": clean, "b": clean_b) whose feature run has completed
    clock,         \* datetime.utcnow(): the time of the next feature run
    rf_mult,       \* build_forecast_layer: SCENARIO_MULTIPLIER, in tenths
    rf_row,        \* recursive_forecast: latest_row, the feature state
    rf_date,       \* recursive_forecast: current_date, the date of the initial latest_row
    rf_steps,      \* recursive_forecast: the argument steps, the horizon of the call
    rf_step,       \* recursive_forecast: the step the loop runs next (rf_steps + 1: loop
                   \* over, rf_steps + 2: main has written the forecasts)
    rf_forecasts,  \* recursive_forecast: forecasts, the list of <<forecast_date, pred>>
    rf_calls,      \* history: the calls of model.predict, [X: the features passed, raw: the value returned]
    stress_features,   \* table ma_stress_features: rows keyed by (hospital_pk, date)
    stress_features_b, \* the stress-feature table built from clean_b
    stress_done,       \* the histories ("a", "b") whose stress-feature run has completed
    reg_train_df,      \* regressor training: the rows of the training hospitals
    reg_val_df,        \* regressor training: the rows of the validation hospitals
    reg_status,        \* "idle", "trained", or "ValueError" when the last run raised
    cls_train_df,      \* classifier training: the rows of the training hospitals
    cls_val_df,        \* classifier training: the rows of the validation hospitals
    cls_status,        \* "idle", "trained", or the error ("ValueError", "IndexError") the last run raised
    model_files,       \* the directory models/: the model stored at each path (NoFile: none)
    fitted,            \* the models that fitting has returned so far; fitting is a function of its data
    shuffles,          \* the permutations random_state=42 has yielded so far, one per array length
    overload,          \* table ma_overload_predictions: rows keyed by (hospital_pk, forecast_date)
    produced,          \* history: [model_version, model] of every row a model run has written
    model_runs,        \* the number of forecast and overload runs made so far
    run_stage,         \* the stage whose script is running ("none": no script is running)
    run_pc,            \* how far the running script is: "idle", "connected", "computed", "sent"
    run_results,       \* the rows the running script has computed
    run_before,        \* history: the tables as they were when the running script connected
    run_no,            \* the number of scripts started so far
    rerun,             \* history: the stage that failed last, the tables before that run, and
                       \* how far its re-run is ("failed", "rerunning", "done")
    pipe_run,          \* run_full_pipeline: the number of pipeline runs started
    pipe_pc,           \* run_full_pipeline.main: the position of the run_step call to make next
    pipe_status,       \* "idle", "running", "finished", or "failed" (RuntimeError left main)
    pipe_done,         \* the scripts whose run_step completed in the current run, in order
    pipe_log,          \* history: <<run, script, returncode>> of every run_step call
    replaced,      \* history: the keys of alert rows an upsert has overwritten with other values
    writes         \* number of rows written to clean and forecast so far

fnVars == <<fn_occ, fn_icu, fn_oxy, fn_out, fn_merge>>
tblVars == <<clean, forecast, alerts, occ_used, replaced, writes>>
featVars == <<features, clean_b, features_b, feat_done, clock>>

rfVars == <<rf_mult, rf_row, rf_date, rf_steps, rf_step, rf_forecasts, rf_calls>>

stressVars == <<stress_features, stress_features_b, stress_done>>

splitVars == <<reg_train_df, reg_val_df, reg_status, cls_train_df, cls_val_df, cls_status>>

pipeVars == <<pipe_run, pipe_pc, pipe_status, pipe_done, pipe_log>>

modelVars == <<model_files, fitted, shuffles, overload, produced, model_runs>>

\* The variables of the parts that follow the training paths.
rerunVars == <<run_stage, run_pc, run_results, run_before, run_no, rerun>>

restVars == <<pipeVars, modelVars, rerunVars>>

vars == <<fnVars, tblVars, featVars, rfVars, stressVars, splitVars, restVars>>

\* What the actions of one part leave alone: the variables of the other parts.
notFn == <<tblVars, featVars, rfVars, stressVars, splitVars, restVars>>
notTbl == <<fnVars, featVars, rfVars, stressVars, splitVars, restVars>>
notFeat == <<fnVars, forecast, alerts, occ_used, replaced, writes, rfVars, stressVars, splitVars, restVars>>
notRf == <<fnVars, clean, alerts, occ_used, replaced, writes, featVars, stressVars, splitVars, restVars>>
notStress == <<fnVars, forecast, alerts, occ_used, replaced, writes, features, features_b,
               feat_done, clock, rfVars, splitVars, restVars>>
notTrain == <<fnVars, alerts, occ_used, replaced, writes, clean_b, features_b, feat_done, clock,
              rfVars, stress_features_b, stress_done, pipeVars, rerunVars>>
notPipe == <<fnVars, tblVars, featVars, rfVars, stressVars, splitVars, modelVars, rerunVars>>
notRerun == <<fnVars, clean, occ_used, replaced, writes, clean_b, features_b, feat_done,
              rfVars, stress_features_b, stress_done, pipeVars, model_runs>>

\* NaN / NULL: an integer below every value of the grid (TLC compares integers
\* with integers only); every operator that reads a value tests for it first.
NaN == 0 - 1000000

Max2(a, b) == IF a >= b THEN a ELSE b
Min2(a, b) == IF a <= b THEN a ELSE b

(***************************************************************************)
(* build_alert_layer.py: configuration and the per-hospital body of main.  *)
(***************************************************************************)
INITIAL_OXYGEN == 40
BURN_SCALE == 15
MAX_WEEKS == 52
OCC_CAP == 150
ICU_CRITICAL == 90
ICU_WATCH == 75
OXY_CRITICAL_WEEKS == 3
OXY_WATCH_WEEKS == 6

Levels == {"Normal", "Watch", "Critical"}

\* severity_rank = {"Normal": 0, "Watch": 1, "Critical": 2}
severity_rank(x) ==
    CASE x = "Normal" -> 0
      [] x = "Watch" -> 1
      [] x = "Critical" -> 2

\* A merge that compares the level names as strings ("Critical" < "Normal" < "Watch").
FinalAlertByName(icu_alert, oxygen_alert) ==
    LET alpha(x) == CASE x = "Critical" -> 0 [] x = "Normal" -> 1 [] x = "Watch" -> 2
    IN IF alpha(oxygen_alert) > alpha(icu_alert) THEN oxygen_alert ELSE icu_alert

\* max(icu_alert, oxygen_alert, key=lambda x: severity_rank[x]): Python's max keeps
\* the first of several maximal arguments.
FinalAlert(icu_alert, oxygen_alert) ==
    IF severity_rank(oxygen_alert) > severity_rank(icu_alert)
    THEN oxygen_alert
    ELSE icu_alert

\* occupancy = max(0.0, min(occupancy, 1.5)); min(nan, 1.5) is nan and
\* max(0.0, nan) is 0.0 in Python.
ClampOccupancy(occupancy) ==
    IF occupancy = NaN THEN 0 ELSE Max2(0, Min2(occupancy, OCC_CAP))

\* An ICU alert whose Critical boundary is exclusive.
IcuAlertStrict(occupancy) ==
    IF occupancy > ICU_CRITICAL THEN "Critical"
    ELSE IF occupancy >= ICU_WATCH THEN "Watch"
    ELSE "Normal"

IcuAlert(occupancy) ==
    IF occupancy >= ICU_CRITICAL THEN "Critical"
    ELSE IF occupancy >= ICU_WATCH THEN "Watch"
    ELSE "Normal"

\* while oxygen > 0 and weeks < 52: oxygen -= burn_rate; weeks += 1
RECURSIVE OxygenLoop(_, _, _)
OxygenLoop(oxygen, weeks, burn_rate) ==
    IF oxygen > 0 /\ weeks < MAX_WEEKS
    THEN OxygenLoop(oxygen - burn_rate, weeks + 1, burn_rate)
    ELSE weeks

\* A simulation that stops counting one week early (tests the supply left after
\* the decrement instead of before it).
OxygenWeeksEarly(occupancy) ==
    LET burn_rate == occupancy * BURN_SCALE
    IN IF burn_rate <= 0 THEN MAX_WEEKS
       ELSE OxygenLoop(INITIAL_OXYGEN * 100 - burn_rate, 0, burn_rate)

\* burn_rate = occupancy * BURN_SCALE; weeks = 52 if burn_rate <= 0, else the loop.
OxygenWeeks(occupancy) ==
    LET burn_rate == occupancy * BURN_SCALE
    IN IF burn_rate <= 0 THEN MAX_WEEKS
       ELSE OxygenLoop(INITIAL_OXYGEN * 100, 0, burn_rate)

\* An oxygen alert whose Critical boundary is exclusive.
OxygenAlertStrict(weeks) ==
    IF weeks < OXY_CRITICAL_WEEKS THEN "Critical"
    ELSE IF weeks <= OXY_WATCH_WEEKS THEN "Watch"
    ELSE "Normal"

OxygenAlert(weeks) ==
    IF weeks <= OXY_CRITICAL_WEEKS THEN "Critical"
    ELSE IF weeks <= OXY_WATCH_WEEKS THEN "Watch"
    ELSE "Normal"

\* The fields main computes for one hospital from its (unclamped) occupancy.
AlertFields(raw) ==
    LET occupancy == ClampOccupancy(raw)
        icu_alert == IcuAlert(occupancy)
        weeks == OxygenWeeks(occupancy)
        oxygen_alert == OxygenAlert(weeks)
    IN [ oxygen_days_remaining |-> weeks * 7,
         oxygen_weeks_remaining |-> weeks,
         oxygen_alert_level |-> oxygen_alert,
         icu_alert_level |-> icu_alert,
         final_alert_level |-> FinalAlert(icu_alert, oxygen_alert) ]

(***************************************************************************)
(* Harness of the alert functions: the inputs are drawn in the initial     *)
(* state, the actions apply the code to them.                              *)
(***************************************************************************)
OccMargin == 10

RawOccupancies == (0 - OccMargin) .. (OCC_CAP + OccMargin)

InitFn ==
    /\ fn_occ \in RawOccupancies
    /\ fn_icu \in Levels
    /\ fn_oxy \in Levels
    /\ fn_out = <<>>
    /\ fn_merge = <<>>

IdleFn ==
    /\ fn_occ = 0
    /\ fn_icu = "Normal"
    /\ fn_oxy = "Normal"
    /\ fn_out = <<>>
    /\ fn_merge = <<>>

ComputeAlert ==
    /\ fn_out = <<>>
    /\ fn_out' = <<AlertFields(fn_occ)>>
    /\ UNCHANGED <<fn_occ, fn_icu, fn_oxy, fn_merge, notFn>>

MergeAlerts ==
    /\ fn_merge = <<>>
    /\ fn_merge' = << FinalAlert(fn_icu, fn_oxy),
                      FinalAlert(fn_oxy, fn_icu),
                      FinalAlert(fn_icu, fn_icu) >>
    /\ UNCHANGED <<fn_occ, fn_icu, fn_oxy, fn_out, notFn>>

(***************************************************************************)
(* build_alert_layer.py main, against the tables it reads and writes.      *)
(***************************************************************************)
MaxHospitals == 2
MaxDates == 2
MaxWrites == 3

Hospitals == 1..MaxHospitals
Dates == 1..MaxDates
\* The clean layer stores what ingestion reported: a NULL, an ordinary ratio, a
\* ratio above the 1.5 the alert layer tolerates.
ObsValues == {NaN, 60, 160}
\* The forecast layer writes clamped predictions only (0 .. 1.2).
ForecastValues == {30, 95}

\* df_clean.dropna(subset=["icu_occupancy_rate"])
DropNaOccupancy(rows) == { r \in rows : r.icu_occupancy_rate # NaN }

\* sort_values(["hospital_pk", "date"], ascending=[True, True])
\* .drop_duplicates(subset=["hospital_pk"], keep="first"): the earliest row.
EarliestPerHospital(rows) ==
    { r \in rows : \A s \in rows : s.hospital_pk = r.hospital_pk => s.date >= r.date }

\* sort_values(["hospital_pk", "date"], ascending=[True, False])
\* .drop_duplicates(subset=["hospital_pk"], keep="first"): per hospital the row
\* with the greatest date.
LatestPerHospital(rows) ==
    { r \in rows : \A s \in rows : s.hospital_pk = r.hospital_pk => s.date <= r.date }

\* The forecast frame with forecast_date named date, as LatestPerHospital reads it.
ForecastFrame(rows) ==
    { [hospital_pk |-> f.hospital_pk, date |-> f.forecast_date,
       predicted_icu_occupancy |-> f.predicted_icu_occupancy] : f \in rows }

\* Lines 76-83: the forecast value when the hospital has a forecast row, else the
\* latest observed value.
Occupancy(row, df_forecast) ==
    IF df_forecast # {} /\ \E f \in df_forecast : f.hospital_pk = row.hospital_pk
    THEN (CHOOSE f \in df_forecast : f.hospital_pk = row.hospital_pk).predicted_icu_occupancy
    ELSE row.icu_occupancy_rate

\* The tuple appended to results for one row of df_latest.
ResultRow(row, df_forecast) ==
    LET f == AlertFields(Occupancy(row, df_forecast))
    IN [ hospital_pk |-> row.hospital_pk,
         date |-> row.date,
         oxygen_days_remaining |-> f.oxygen_days_remaining,
         oxygen_weeks_remaining |-> f.oxygen_weeks_remaining,
         oxygen_alert_level |-> f.oxygen_alert_level,
         icu_alert_level |-> f.icu_alert_level,
         final_alert_level |-> f.final_alert_level ]

\* An upsert whose DO UPDATE SET list leaves icu_alert_level out.
UpsertAlertKeepIcu(table, new) ==
    IF \E old \in table : old.hospital_pk = new.hospital_pk /\ old.date = new.date
    THEN { IF old.hospital_pk = new.hospital_pk /\ old.date = new.date
           THEN [ old EXCEPT !.oxygen_days_remaining = new.oxygen_days_remaining,
                             !.oxygen_weeks_remaining = new.oxygen_weeks_remaining,
                             !.oxygen_alert_level = new.oxygen_alert_level,
                             !.final_alert_level = new.final_alert_level ]
           ELSE old : old \in table }
    ELSE table \cup {new}

\* INSERT ... ON CONFLICT (hospital_pk, date) DO UPDATE SET <every other column>.
UpsertAlert(table, new) ==
    IF \E old \in table : old.hospital_pk = new.hospital_pk /\ old.date = new.date
    THEN { IF old.hospital_pk = new.hospital_pk /\ old.date = new.date
           THEN [ old EXCEPT !.oxygen_days_remaining = new.oxygen_days_remaining,
                             !.oxygen_weeks_remaining = new.oxygen_weeks_remaining,
                             !.oxygen_alert_level = new.oxygen_alert_level,
                             !.icu_alert_level = new.icu_alert_level,
                             !.final_alert_level = new.final_alert_level ]
           ELSE old : old \in table }
    ELSE table \cup {new}

\* execute_batch: the upserts of results, one after the other (results holds one
\* row per hospital, so their keys differ and the order does not matter).
RECURSIVE UpsertAll(_, _)
UpsertAll(table, results) ==
    IF results = {} THEN table
    ELSE LET r == CHOOSE x \in results : TRUE
         IN UpsertAll(UpsertAlert(table, r), results \ {r})

IdleTables ==
    /\ clean = {}
    /\ forecast = {}
    /\ alerts = {}
    /\ occ_used = {}
    /\ replaced = {}
    /\ writes = 0

\* The clean layer upserts one observation (build_clean_layer.py, ON CONFLICT
\* (hospital_pk, date) DO UPDATE).
WriteObservation(h, d, v) ==
    /\ writes < MaxWrites
    /\ writes' = writes + 1
    /\ clean' = { r \in clean : ~(r.hospital_pk = h /\ r.date = d) }
                 \cup { [hospital_pk |-> h, date |-> d, icu_occupancy_rate |-> v] }
    /\ occ_used' = {}
    /\ UNCHANGED <<forecast, alerts, replaced, notTbl>>

\* The forecast layer upserts one forecast row (build_forecast_layer.py, ON
\* CONFLICT (hospital_pk, forecast_date) DO UPDATE).
WriteForecast(h, d, v) ==
    /\ writes < MaxWrites
    /\ writes' = writes + 1
    /\ forecast' = { f \in forecast : ~(f.hospital_pk = h /\ f.forecast_date = d) }
                    \cup { [hospital_pk |-> h, forecast_date |-> d,
                             predicted_icu_occupancy |-> v] }
    /\ occ_used' = {}
    /\ UNCHANGED <<clean, alerts, replaced, notTbl>>

\* Result rows whose final level also looks at the overload predictions: Critical
\* for a hospital flagged for overload.
AlertResultsFlagged(df_clean_table, df_forecast_table) ==
    LET df_latest == LatestPerHospital(DropNaOccupancy(df_clean_table))
        df_forecast == LatestPerHospital(ForecastFrame(df_forecast_table))
    IN { [ ResultRow(row, df_forecast) EXCEPT !.final_alert_level =
               IF \E o \in overload : o.hospital_pk = row.hospital_pk /\ o.overload_flag = 1
               THEN "Critical" ELSE @ ] : row \in df_latest }

\* Lines 21-147 of main: the result rows for the two tables it reads.
AlertResults(df_clean_table, df_forecast_table) ==
    LET df_latest == LatestPerHospital(DropNaOccupancy(df_clean_table))
        df_forecast == LatestPerHospital(ForecastFrame(df_forecast_table))
    IN { ResultRow(row, df_forecast) : row \in df_latest }

\* One run of main.
AlertMain ==
    LET df_clean == DropNaOccupancy(clean)
        df_latest == LatestPerHospital(df_clean)
        df_forecast == LatestPerHospital(ForecastFrame(forecast))
        results == AlertResults(clean, forecast)
    IN /\ alerts' = UpsertAll(alerts, results)
       /\ occ_used' = { <<row.hospital_pk, ClampOccupancy(Occupancy(row, df_forecast))>> :
                           row \in df_latest }
       /\ replaced' = replaced \cup
               { <<r.hospital_pk, r.date>> : r \in { x \in results :
                   \E old \in alerts : /\ old.hospital_pk = x.hospital_pk
                                        /\ old.date = x.date
                                        /\ old # x } }
       /\ UNCHANGED <<clean, forecast, writes, notTbl>>

NextTables ==
    \/ \E h \in Hospitals, d \in Dates, v \in ObsValues : WriteObservation(h, d, v)
    \/ \E h \in Hospitals, d \in Dates, v \in ForecastValues : WriteForecast(h, d, v)
    \/ AlertMain

(***************************************************************************)
(* build_features_layer.py.  A frame is the sequence of its rows; a rolling *)
(* mean over 4 values is kept as their sum and a squared standard deviation *)
(* as <<numerator, denominator>>, so that nothing is rounded.               *)
(***************************************************************************)
\* Row order of df.sort_values(["hospital_pk", "date"]).
RowBefore(r, s) ==
    \/ r.hospital_pk < s.hospital_pk
    \/ r.hospital_pk = s.hospital_pk /\ r.date < s.date

RECURSIVE SortValues(_)
SortValues(rows) ==
    IF rows = {} THEN <<>>
    ELSE LET first == CHOOSE r \in rows : \A s \in rows \ {r} : RowBefore(r, s)
         IN <<first>> \o SortValues(rows \ {first})

\* df["icu_occupancy_rate"].shift(k) without the groupby: the value k rows back
\* in the frame, whichever hospital that row belongs to.
FrameShift(df, i, k) ==
    IF i - k >= 1 THEN df[i - k].icu_occupancy_rate ELSE NaN

\* g["icu_occupancy_rate"].shift(k) at row i: the value k rows back when that row
\* belongs to the same hospital, else NaN.
GroupShift(df, i, k) ==
    IF i - k >= 1 /\ df[i - k].hospital_pk = df[i].hospital_pk
    THEN df[i - k].icu_occupancy_rate
    ELSE NaN

\* A rolled series that is not shifted: the window then ends at the current row.
RollingSeriesUnshifted(df) == [ i \in 1..Len(df) |-> df[i].icu_occupancy_rate ]

\* g["icu_occupancy_rate"].shift(1): one series over the whole frame, which
\* .rolling(4) then rolls over without regard to the hospital.
RollingSeries(df) == [ i \in 1..Len(df) |-> GroupShift(df, i, 1) ]

\* The window of .rolling(4) at row i: the 4 values ending at i; <<>> when fewer
\* than 4 rows exist or one of the 4 is NaN (min_periods = 4).
Window4(series, i) ==
    IF i < 4 THEN <<>>
    ELSE LET w == << series[i], series[i - 1], series[i - 2], series[i - 3] >>
         IN IF \E j \in 1..4 : w[j] = NaN THEN <<>> ELSE w

Sum4(w) == w[1] + w[2] + w[3] + w[4]
Min4(w) == Min2(Min2(w[1], w[2]), Min2(w[3], w[4]))
Max4(w) == Max2(Max2(w[1], w[2]), Max2(w[3], w[4]))
\* 4 * (sum of squares) - (sum)^2 = 4 * (sum of the squared deviations from the mean).
Dev4(w) == 4 * (w[1] * w[1] + w[2] * w[2] + w[3] * w[3] + w[4] * w[4]) - Sum4(w) * Sum4(w)

\* A NULL ratio.
NullRatio == <<0, 0>>

\* The quotient of line 37 left as pandas computes it: a zero lag_1 gives a
\* ratio of denominator 0 (inf or -inf) that nothing replaces.
PctChangeRaw(current, lag_1) ==
    IF current = NaN \/ lag_1 = NaN THEN NullRatio
    ELSE <<current - lag_1, lag_1>>

\* (icu_occupancy_rate - lag_1) / lag_1 as <<numerator, denominator>>; NaN operands
\* give NaN, and a zero lag_1 gives inf, -inf or NaN, which line 40 and the
\* pd.notna test of main turn into NULL.
PctChange(current, lag_1) ==
    IF current = NaN \/ lag_1 = NaN \/ lag_1 = 0 THEN NullRatio
    ELSE <<current - lag_1, lag_1>>

\* The row build_features computes at position i of the sorted frame.
FeatureRowAt(df, i) ==
    LET w == Window4(RollingSeries(df), i)
        lag_1 == GroupShift(df, i, 1)
        current == df[i].icu_occupancy_rate
    IN [ hospital_pk |-> df[i].hospital_pk,
         date |-> df[i].date,
         icu_occupancy_rate |-> current,
         lag_1 |-> lag_1,
         lag_2 |-> GroupShift(df, i, 2),
         lag_3 |-> GroupShift(df, i, 3),
         lag_4 |-> GroupShift(df, i, 4),
         roll_mean_4 |-> IF w = <<>> THEN NaN ELSE Sum4(w),
         roll_std_4 |-> IF w = <<>> THEN NullRatio ELSE <<Dev4(w), 12>>,
         roll_min_4 |-> IF w = <<>> THEN NaN ELSE Min4(w),
         roll_max_4 |-> IF w = <<>> THEN NaN ELSE Max4(w),
         delta_1 |-> IF current = NaN \/ lag_1 = NaN THEN NaN ELSE current - lag_1,
         pct_change_1 |-> PctChange(current, lag_1) ]

\* A builder that keeps every row and fills what is missing with 0.
build_features_filled(rows) ==
    LET df == SortValues(rows)
    IN { [ FeatureRowAt(df, i) EXCEPT !.lag_1 = IF @ = NaN THEN 0 ELSE @,
                                      !.lag_2 = IF @ = NaN THEN 0 ELSE @,
                                      !.lag_3 = IF @ = NaN THEN 0 ELSE @,
                                      !.lag_4 = IF @ = NaN THEN 0 ELSE @,
                                      !.roll_mean_4 = IF @ = NaN THEN 0 ELSE @ ] :
           i \in 1..Len(df) }

\* build_features: the rows of every position, less those without lag_1 or
\* roll_mean_4 (dropna).
build_features(rows) ==
    LET df == SortValues(rows)
    IN { r \in { FeatureRowAt(df, i) : i \in 1..Len(df) } :
            r.lag_1 # NaN /\ r.roll_mean_4 # NaN }

\* INSERT ... ON CONFLICT (hospital_pk, date) DO NOTHING: the row of a key that
\* is in the table stays.
UpsertFeaturesKeepOld(table, rows) ==
    table \cup
    { new \in rows : ~\E old \in table : new.hospital_pk = old.hospital_pk /\ new.date = old.date }

\* INSERT ... ON CONFLICT (hospital_pk, date) DO UPDATE SET <every other column>:
\* the new row takes the place of the row of its key.
UpsertFeatures(table, rows) ==
    { old \in table : ~\E new \in rows : new.hospital_pk = old.hospital_pk /\ new.date = old.date }
    \cup rows

MaxRows == 6

\* Ratios the clean layer can hold for the feature builder: zero, another, and
\* (in the second history) NULL.
FeatValues == {0, 80}

\* The rows of hospital h whose observations at the dates 1 .. Len(series) are series.
SeriesRows(h, series) ==
    { [hospital_pk |-> h, date |-> d, icu_occupancy_rate |-> series[d]] :
        d \in 1..Len(series) }

\* The clean tables of at most budget rows over the hospitals h .. MaxHospitals.
RECURSIVE CleanTables(_, _)
CleanTables(h, budget) ==
    IF h > MaxHospitals THEN { {} }
    ELSE UNION { { SeriesRows(h, series) \cup rest :
                     series \in [1..n -> FeatValues],
                     rest \in CleanTables(h + 1, budget - n) } : n \in 0..budget }

\* Two histories that differ in the observed value of exactly one row.
\* The times datetime.utcnow() returns to the successive feature runs.
RunTimes == {1, 2}

\* df["created_at"] = datetime.utcnow()
StampCreated(rows, now) == { [created_at |-> now] @@ r : r \in rows }

InitFeatures ==
    /\ clock = 1
    /\ clean \in CleanTables(1, MaxRows)
    /\ \E r \in clean :
          \E v \in (FeatValues \cup {NaN}) \ {r.icu_occupancy_rate} :
              clean_b = (clean \ {r}) \cup { [r EXCEPT !.icu_occupancy_rate = v] }
    /\ features = {}
    /\ features_b = {}
    /\ feat_done = {}

\* main of build_features_layer.py on the first history: an empty frame raises
\* before anything is written.
FeatureMain ==
    /\ clock \in RunTimes
    /\ clean # {}
    /\ features' = UpsertFeatures(features, StampCreated(build_features(clean), clock))
    /\ feat_done' = feat_done \cup {"a"}
    /\ clock' = clock + 1
    /\ UNCHANGED <<clean, clean_b, features_b, notFeat>>

\* The same run on the second history.
FeatureMainB ==
    /\ clock \in RunTimes
    /\ clean_b # {}
    /\ features_b' = UpsertFeatures(features_b, StampCreated(build_features(clean_b), clock))
    /\ feat_done' = feat_done \cup {"b"}
    /\ clock' = clock + 1
    /\ UNCHANGED <<clean, clean_b, features, notFeat>>

IdleFeatures ==
    /\ clock = 1
    /\ features = {}
    /\ clean_b = {}
    /\ features_b = {}
    /\ feat_done = {}

(***************************************************************************)
(* build_forecast_layer.py: recursive_forecast, one action per loop        *)
(* iteration, and the write of its forecasts by main.  The regressor is    *)
(* opaque: each call of model.predict returns some value of RawPredictions.*)
(* Of FEATURE_COLS the model carries the ten columns the loop rewrites;    *)
(* inpatient_occupancy_rate and covid_icu_burden_rate pass through         *)
(* unchanged.                                                              *)
(***************************************************************************)
steps == 4
PRED_CAP == 120

\* What the regressor may return: below 0, in range, above 1.2.
RawPredictions == {0 - 20, 60, 140}
\* Scenario multipliers in tenths: 0.5, the default 1.0, 1.5.
Multipliers == {5, 10, 15}

\* latest_row[FEATURE_COLS].fillna(0.0)
FillNa(x) == IF x = NaN THEN 0 ELSE x
FillNaRatio(x) == IF x = NullRatio THEN <<0, 1>> ELSE x
FeatureVector(row) ==
    [ lag_1 |-> FillNa(row.lag_1), lag_2 |-> FillNa(row.lag_2),
      lag_3 |-> FillNa(row.lag_3), lag_4 |-> FillNa(row.lag_4),
      roll_mean_4 |-> FillNa(row.roll_mean_4),
      roll_std_4 |-> FillNaRatio(row.roll_std_4),
      roll_min_4 |-> FillNa(row.roll_min_4),
      roll_max_4 |-> FillNa(row.roll_max_4),
      delta_1 |-> FillNa(row.delta_1),
      pct_change_1 |-> FillNaRatio(row.pct_change_1) ]

\* A prediction that is clamped first and scaled afterwards.
PredictionClampFirst(raw, multiplier) ==
    (Max2(0, Min2(raw, PRED_CAP)) * multiplier) \div 10

\* pred *= SCENARIO_MULTIPLIER; pred = max(0.0, min(pred, 1.2))
Prediction(raw, multiplier) ==
    Max2(0, Min2((raw * multiplier) \div 10, PRED_CAP))

\* A lag update that writes lag_1 first: every lag then holds the prediction.
ShiftLagsFromFront(row, pred) ==
    LET r1 == [row EXCEPT !.lag_1 = pred]
        r2 == [r1 EXCEPT !.lag_2 = r1.lag_1]
        r3 == [r2 EXCEPT !.lag_3 = r2.lag_2]
    IN [r3 EXCEPT !.lag_4 = r3.lag_3]

\* Lines 160-163, one assignment after the other.
ShiftLags(row, pred) ==
    LET r1 == [row EXCEPT !.lag_4 = row.lag_3]
        r2 == [r1 EXCEPT !.lag_3 = r1.lag_2]
        r3 == [r2 EXCEPT !.lag_2 = r2.lag_1]
    IN [r3 EXCEPT !.lag_1 = pred]

\* The recomputation with the quotient of lines 180-181 taken whatever lag_2 is.
RecomputeUnguarded(row) ==
    LET lags == << row.lag_1, row.lag_2, row.lag_3, row.lag_4 >>
    IN [ row EXCEPT !.roll_mean_4 = Sum4(lags),
                    !.roll_std_4 = << Dev4(lags), 16 >>,
                    !.roll_min_4 = Min4(lags),
                    !.roll_max_4 = Max4(lags),
                    !.delta_1 = row.lag_1 - row.lag_2,
                    !.pct_change_1 = << row.lag_1 - row.lag_2, row.lag_2 >> ]

\* Lines 165-183: the rolling statistics (np.mean, np.std, np.min, np.max) and
\* the dynamics, recomputed from the shifted lags.
Recompute(row) ==
    LET lags == << row.lag_1, row.lag_2, row.lag_3, row.lag_4 >>
    IN [ row EXCEPT !.roll_mean_4 = Sum4(lags),
                    !.roll_std_4 = << Dev4(lags), 16 >>,
                    !.roll_min_4 = Min4(lags),
                    !.roll_max_4 = Max4(lags),
                    !.delta_1 = row.lag_1 - row.lag_2,
                    !.pct_change_1 = IF row.lag_2 # 0
                                     THEN << row.lag_1 - row.lag_2, row.lag_2 >>
                                     ELSE << 0, 1 >> ]

\* A forecast date that does not move with the step.
ForecastDateNextWeek(current_date, step) == current_date + 1

\* forecast_date = current_date + timedelta(weeks=step)
ForecastDate(current_date, step) == current_date + step

MaxSteps == 4

\* The horizons recursive_forecast is called with: steps=4 by main, and the
\* others of 1 .. MaxSteps by a direct call.
Horizons == 1..MaxSteps

\* hospital_df.sort_values("date").iloc[-1]
LatestRow(hospital_df) ==
    CHOOSE r \in hospital_df : \A q \in hospital_df : q.date <= r.date

\* The feature rows of one hospital, built from a series of MaxRows - 1 or MaxRows
\* observations, as main hands them to recursive_forecast.
HospitalFrames ==
    { f \in { build_features(SeriesRows(1, series)) :
                series \in UNION { [1..n -> FeatValues] : n \in (MaxRows - 1)..MaxRows } } :
        f # {} }

InitForecast ==
    /\ rf_mult \in Multipliers
    /\ \E hospital_df \in HospitalFrames :
          /\ features = hospital_df
          /\ rf_row = LatestRow(hospital_df)
          /\ rf_date = LatestRow(hospital_df).date
    /\ rf_steps \in Horizons
    /\ rf_step = 1
    /\ rf_forecasts = <<>>
    /\ rf_calls = <<>>

IdleForecast ==
    /\ rf_mult = 10
    /\ rf_row = <<>>
    /\ rf_date = 0
    /\ rf_steps = 0
    /\ rf_step = 0
    /\ rf_forecasts = <<>>
    /\ rf_calls = <<>>

\* One iteration of the loop of recursive_forecast (lines 148-183); raw is what
\* model.predict returns for X.
ForecastStep(raw) ==
    /\ 1 <= rf_step /\ rf_step <= rf_steps
    /\ LET X == FeatureVector(rf_row)
           pred == Prediction(raw, rf_mult)
           forecast_date == ForecastDate(rf_date, rf_step)
       IN /\ rf_calls' = Append(rf_calls, [X |-> X, raw |-> raw])
          /\ rf_forecasts' = Append(rf_forecasts, <<forecast_date, pred>>)
          /\ rf_row' = Recompute(ShiftLags(rf_row, pred))
    /\ rf_step' = rf_step + 1
    /\ UNCHANGED <<rf_mult, rf_date, rf_steps, forecast, notRf>>

\* Lines 209-237 of main for the hospital: the forecasts of its call with
\* steps=4 are upserted by (hospital_pk, forecast_date).
ForecastWrite ==
    /\ rf_steps = steps
    /\ rf_step = steps + 1
    /\ rf_step' = steps + 2
    /\ LET results == { [hospital_pk |-> rf_row.hospital_pk,
                         forecast_date |-> rf_forecasts[i][1],
                         predicted_icu_occupancy |-> rf_forecasts[i][2]] :
                           i \in 1..Len(rf_forecasts) }
       IN forecast' = { f \in forecast :
                          ~\E new \in results : /\ new.hospital_pk = f.hospital_pk
                                                 /\ new.forecast_date = f.forecast_date }
                      \cup results
    /\ UNCHANGED <<rf_mult, rf_row, rf_date, rf_steps, rf_forecasts, rf_calls, notRf>>

\* A ratio that is taken as it comes.
Unclamped(x) == x

(***************************************************************************)
(* build_stress_features.py.  Utilisations are hundredths (0 .. 100), the   *)
(* oxygen risk proxy is in thousandths (0 .. 1000), a stress score in       *)
(* hundredths of a point (69.2 is 6920).    A rolling mean over n values is *)
(* kept as their sum, a squared standard deviation and the centered stress  *)
(* as <<numerator, denominator>>.  The columns no claim reads               *)
(* (icu_util_lag2, icu_delta_2w, stress_delta_1w, stress_next_centered, the *)
(* week-of-year columns) are left out.                                      *)
(***************************************************************************)
\* np.clip(x, 0.0, 1.0); a NaN stays NaN.
clamp01(x) == IF x = NaN THEN NaN ELSE Max2(0, Min2(x, 100))

\* Lines 42-50: rows without a non-negative icu_occupancy_rate are dropped, the
\* three ratios are clamped, and every NaN left in the frame becomes 0.
StressInput(rows) ==
    { [ hospital_pk |-> r.hospital_pk,
        date |-> r.date,
        icu_util |-> FillNa(clamp01(r.icu_occupancy_rate)),
        inpatient_util |-> FillNa(clamp01(r.inpatient_occupancy_rate)),
        covid_ratio |-> FillNa(clamp01(r.covid_icu_burden_rate)) ] :
        r \in { x \in rows : x.icu_occupancy_rate # NaN /\ x.icu_occupancy_rate >= 0 } }

\* g["icu_util"].shift(1) at row i of a hospital's rows g.
IcuUtilLag1(g, i) == IF i > 1 THEN g[i - 1].icu_util ELSE NaN

\* (icu_util - icu_util_lag1).clip(-0.3, 0.3)
IcuDelta1w(g, i) ==
    IF IcuUtilLag1(g, i) = NaN THEN NaN
    ELSE Max2(0 - 30, Min2(g[i].icu_util - IcuUtilLag1(g, i), 30))

\* clamp01(0.6 * icu_util + 0.2 * inpatient_util + 0.2 * covid_ratio)
OxygenRiskProxy(row) ==
    Max2(0, Min2(6 * row.icu_util + 2 * row.inpatient_util + 2 * row.covid_ratio, 1000))

\* A stress score without its trend term.
StressAtNoTrend(g, i) == 50 * g[i].icu_util + 3 * OxygenRiskProxy(g[i])

\* 0.5 * icu_util * 100 + 0.3 * oxygen_risk_proxy * 100
\*   + 0.2 * clamp01(icu_delta_1w.fillna(0) / 0.10) * 100
StressAt(g, i) ==
    50 * g[i].icu_util + 3 * OxygenRiskProxy(g[i])
    + 200 * Max2(0, Min2(FillNa(IcuDelta1w(g, i)), 10))

RECURSIVE StressPrefix(_, _)
\* The stress of the first n rows of g.
StressPrefix(g, n) ==
    IF n = 0 THEN <<>> ELSE Append(StressPrefix(g, n - 1), StressAt(g, n))

\* The stress column of a hospital's rows g.
StressColumn(g) == StressPrefix(g, Len(g))

\* g["stress"].shift(k) at row i (k may be negative); stress is the hospital's
\* stress column.
StressShift(stress, i, k) ==
    IF 1 <= i - k /\ i - k <= Len(stress) THEN stress[i - k] ELSE NaN

\* The sum of the entries from .. to of a column.
SumStress(stress, from, to) ==
    LET Sums[j \in (from - 1)..to] == IF j < from THEN 0 ELSE stress[j] + Sums[j - 1]
    IN Sums[to]

\* The sum of (x - y)^2 over the pairs x, y of the entries from .. to of a
\* column, which is n * sum(x^2) - sum(x)^2 for the n entries.
SumSquaredGaps(stress, from, to) ==
    LET Gap(j, k) == (stress[j] - stress[k]) * (stress[j] - stress[k])
        Row[j \in from..to, k \in (from - 1)..to] ==
            IF k <= j THEN 0 ELSE Gap(j, k) + Row[j, k - 1]
        Gaps[j \in (from - 1)..to] == IF j < from THEN 0 ELSE Row[j, to] + Gaps[j - 1]
    IN Gaps[to]

\* x.shift(1).rolling(n).mean() within the hospital: the n rows before row i.
StressRoll(stress, i, n) == IF i - n >= 1 THEN SumStress(stress, i - n, i - 1) ELSE NaN

\* x.shift(1).rolling(6).std() within the hospital (sample standard deviation).
StressRoll6Std(stress, i) ==
    IF i - 6 >= 1 THEN << SumSquaredGaps(stress, i - 6, i - 1), 30 >> ELSE NullRatio

\* stress - g["stress"].transform("mean"): the mean runs over every row of the
\* hospital.
StressCentered(stress, i) ==
    << Len(stress) * stress[i] - SumStress(stress, 1, Len(stress)), Len(stress) >>

\* The stress-feature rows of a hospital's rows g.
StressRows(g) ==
    LET stress == StressColumn(g)
    IN { [ hospital_pk |-> g[i].hospital_pk,
           date |-> g[i].date,
           icu_util |-> g[i].icu_util,
           inpatient_util |-> g[i].inpatient_util,
           covid_ratio |-> g[i].covid_ratio,
           icu_util_lag1 |-> IcuUtilLag1(g, i),
           icu_delta_1w |-> IcuDelta1w(g, i),
           oxygen_risk_proxy |-> OxygenRiskProxy(g[i]),
           stress |-> stress[i],
           stress_next |-> StressShift(stress, i, 0 - 1),
           stress_lag1 |-> StressShift(stress, i, 1),
           stress_lag2 |-> StressShift(stress, i, 2),
           stress_roll3 |-> StressRoll(stress, i, 3),
           stress_roll6 |-> StressRoll(stress, i, 6),
           stress_roll6_std |-> StressRoll6Std(stress, i),
           stress_centered |-> StressCentered(stress, i) ] : i \in 1..Len(g) }

\* Lines 41-107: df_out, the stress-feature rows of every hospital of the frame.
StressFrame(rows) ==
    LET df == StressInput(rows)
    IN UNION { StressRows(SortValues({ r \in df : r.hospital_pk = h })) :
               h \in { r.hospital_pk : r \in df } }

\* INSERT ... ON CONFLICT (hospital_pk, date) DO UPDATE SET <every other column>.
UpsertStress(table, rows) ==
    { old \in table : ~\E new \in rows : new.hospital_pk = old.hospital_pk /\ new.date = old.date }
    \cup rows

\* build_overload_predictions.py: df[FEATURE_COLS].fillna(0.0), the values the
\* overload classifier consumes from a stress-feature row.
OverloadFeatures(row) ==
    [ stress_lag1 |-> FillNa(row.stress_lag1),
      stress_lag2 |-> FillNa(row.stress_lag2),
      stress_roll3 |-> FillNa(row.stress_roll3),
      stress_roll6 |-> FillNa(row.stress_roll6),
      stress_roll6_std |-> FillNaRatio(row.stress_roll6_std),
      icu_util |-> FillNa(row.icu_util),
      icu_delta_1w |-> FillNa(row.icu_delta_1w),
      oxygen_risk_proxy |-> FillNa(row.oxygen_risk_proxy),
      stress_centered |-> FillNaRatio(row.stress_centered) ]

MaxStressRows == 7

\* What a clean row can report: two ordinary weeks of a hospital, and (in the
\* second history) a week with an ICU ratio above 1 and the other ratios missing,
\* or a week with a low ICU ratio, an inpatient ratio above 1 and no covid ratio.
StressProfiles ==
    { [icu_occupancy_rate |-> 75, inpatient_occupancy_rate |-> 50, covid_icu_burden_rate |-> 30],
      [icu_occupancy_rate |-> 80, inpatient_occupancy_rate |-> 50, covid_icu_burden_rate |-> 30] }
OtherProfiles ==
    { [icu_occupancy_rate |-> 130, inpatient_occupancy_rate |-> NaN, covid_icu_burden_rate |-> NaN],
      [icu_occupancy_rate |-> 30, inpatient_occupancy_rate |-> 250, covid_icu_burden_rate |-> NaN] }

ProfileRow(h, d, profile) ==
    [ hospital_pk |-> h, date |-> d,
      icu_occupancy_rate |-> profile.icu_occupancy_rate,
      inpatient_occupancy_rate |-> profile.inpatient_occupancy_rate,
      covid_icu_burden_rate |-> profile.covid_icu_burden_rate ]

\* The hospitals of the stress-feature runs: one and a neighbour.
StressHospitals == {1, 2}

\* The clean tables of at most budget rows over the hospitals from h on.
RECURSIVE StressTables(_, _)
StressTables(h, budget) ==
    IF h \notin StressHospitals THEN { {} }
    ELSE UNION { { { ProfileRow(h, d, series[d]) : d \in 1..n } \cup rest :
                     series \in [1..n -> StressProfiles],
                     rest \in StressTables(h + 1, budget - n) } : n \in 0..budget }

\* Two histories that differ in exactly one row.
InitStress ==
    /\ clean \in StressTables(1, MaxStressRows)
    /\ \E r \in clean :
          \E profile \in StressProfiles \cup OtherProfiles :
              /\ ProfileRow(r.hospital_pk, r.date, profile) # r
              /\ clean_b = (clean \ {r}) \cup { ProfileRow(r.hospital_pk, r.date, profile) }
    /\ stress_features = {}
    /\ stress_features_b = {}
    /\ stress_done = {}

IdleStress ==
    /\ stress_features = {}
    /\ stress_features_b = {}
    /\ stress_done = {}

\* main of build_stress_features.py on the first history: an empty frame raises
\* before anything is written.
StressMain ==
    /\ clean # {}
    /\ stress_features' = UpsertStress(stress_features, StressFrame(clean))
    /\ stress_done' = stress_done \cup {"a"}
    /\ UNCHANGED <<clean, clean_b, stress_features_b, notStress>>

\* The same run on the second history.
StressMainB ==
    /\ clean_b # {}
    /\ stress_features_b' = UpsertStress(stress_features_b, StressFrame(clean_b))
    /\ stress_done' = stress_done \cup {"b"}
    /\ UNCHANGED <<clean, clean_b, stress_features, notStress>>

(***************************************************************************)
(* The hospital-holdout split of the two training paths:                    *)
(* train_and_evaluate_group_holdout (build_forecast_layer.py) and           *)
(* train_and_eval_hospital_holdout (build_overload_predictions.py).         *)
(***************************************************************************)
\* df["hospital_pk"]: the hospital id of every row of a frame, a row at a time.
HospitalColumn(df) ==
    LET frame == SortValues(df) IN [i \in 1..Len(frame) |-> frame[i].hospital_pk]

\* A column that keeps one entry per row.
EveryRow(column) == column

\* Series.unique(): each value once, in order of first appearance.
unique(column) ==
    LET firsts == { i \in 1..Len(column) : \A j \in 1..(i - 1) : column[j] # column[i] }
        Kth(k) == CHOOSE i \in firsts : Cardinality({ j \in firsts : j < i }) = k - 1
    IN [ k \in 1..Cardinality(firsts) |-> column[Kth(k)] ]

\* sklearn's sizes for test_size = 0.2: n_test = ceil(0.2 * n), n_train = floor(0.8 * n).
NTest(n) == (2 * n + 9) \div 10
NTrain(n) == (8 * n) \div 10

\* The permutations of n positions, as far as the split reads them: the first
\* n_test positions of the permutation (test) and the n_train that follow (train).
Shuffles(n) ==
    LET positions == 1..n
        Pick(from, k) == { x \in SUBSET from : Cardinality(x) = k }
    IN UNION { { [ n |-> n, train |-> tr, test |-> te ] :
                   tr \in Pick(positions \ te, NTrain(n)) } :
               te \in Pick(positions, NTest(n)) }

\* RandomState(42).permutation(n): one permutation per n, the same in every call
\* and in both scripts.  Which one it is is left open until the first call.
random_state_42(n) ==
    IF \E s \in shuffles : s.n = n THEN { s \in shuffles : s.n = n } ELSE Shuffles(n)

\* train_test_split(arr, test_size=0.2, random_state=42): the entries of arr at
\* the test positions and at the train positions of the permutation.
train_test_split(arr) ==
    { [ train |-> { arr[i] : i \in s.train }, test |-> { arr[i] : i \in s.test }, shuffle |-> s ] :
        s \in random_state_42(Len(arr)) }

\* df[df["hospital_pk"].isin(ids)]
IsIn(df, ids) == { r \in df : r.hospital_pk \in ids }

MIN_HOSPITALS == 5
CV_FOLDS == 3
SCENARIO_MULTIPLIER == 10
STRESS_OVERLOAD_THRESHOLD == 7500
PROB_THRESHOLD == 35
RETRAIN_MODEL == TRUE
XGB_MODEL_PATH == "models/xgb_forecast_v1.pkl"
XGB_MODEL_VERSION == "xgb_v1_group_holdout"
RF_MODEL_PATH == "models/rf_overload_v1.pkl"
RF_MODEL_VERSION == "rf_overload_v1"

\* A path of models/ at which nothing is stored.
NoFile == <<>>

\* What a fitted regressor can be: one that answers below 0 whatever the
\* features, one that answers above 1.2, and one that repeats lag_1.
Regressors == {"floor", "ceiling", "persistence"}

\* What a fitted classifier can be: the probability of overload it answers, in
\* hundredths, below, at and above PROB_THRESHOLD.
Classifiers == {20, 35, 50}

\* grid.fit / model.fit with random_state=42: the model is a function of the
\* training rows; which of the answers it gives is left open until the first fit
\* on these rows.
Fit(kind, train_df, answers) ==
    IF \E m \in fitted : m.kind = kind /\ m.fitted_on = train_df
    THEN { m \in fitted : m.kind = kind /\ m.fitted_on = train_df }
    ELSE { [ kind |-> kind, fitted_on |-> train_df, answers |-> a ] : a \in answers }

\* model.predict(X) of a fitted regressor.
Predict(model, X) ==
    CASE model.answers = "floor" -> 0 - 20
      [] model.answers = "ceiling" -> 140
      [] model.answers = "persistence" -> X.lag_1

\* load_or_train_model / load_or_train: the stored model is used only when
\* RETRAIN_MODEL is off and the file exists.
LoadsModel(path) == ~RETRAIN_MODEL /\ model_files[path] # NoFile

RECURSIVE ForecastLoop(_, _, _, _)
\* The loop of recursive_forecast from step on, as a list of <<forecast_date, pred>>.
ForecastLoop(model, latest_row, current_date, step) ==
    IF step > steps THEN <<>>
    ELSE LET X == FeatureVector(latest_row)
             pred == Prediction(Predict(model, X), SCENARIO_MULTIPLIER)
         IN << <<ForecastDate(current_date, step), pred>> >>
            \o ForecastLoop(model, Recompute(ShiftLags(latest_row, pred)), current_date, step + 1)

\* recursive_forecast(model, hospital_df, steps=4)
recursive_forecast(model, hospital_df) ==
    ForecastLoop(model, LatestRow(hospital_df), LatestRow(hospital_df).date, 1)

\* Lines 205-218 of build_forecast_layer.main: the result rows of every hospital
\* of the feature table.
ForecastResults(model, df_features) ==
    UNION { LET forecasts == recursive_forecast(model, IsIn(df_features, {hospital_id}))
            IN { [ hospital_pk |-> hospital_id,
                   forecast_date |-> forecasts[i][1],
                   predicted_icu_occupancy |-> forecasts[i][2],
                   model_version |-> XGB_MODEL_VERSION ] : i \in 1..Len(forecasts) } :
            hospital_id \in { r.hospital_pk : r \in df_features } }

\* Result rows whose flag is raised only above the probability threshold.
OverloadResultsAbove(model, df) ==
    { LET latest == LatestRow(IsIn(df, {hospital_pk}))
          prob == model.answers
      IN [ hospital_pk |-> hospital_pk,
           forecast_date |-> latest.date + 1,
           overload_probability |-> prob,
           overload_flag |-> IF prob > PROB_THRESHOLD THEN 1 ELSE 0,
           threshold_used |-> PROB_THRESHOLD,
           model_version |-> RF_MODEL_VERSION ] :
      hospital_pk \in { r.hospital_pk : r \in df } }

\* Lines 164-186 of build_overload_predictions.main: one result row per hospital
\* of the stress-feature table, from its latest row with fillna(0.0).
OverloadResults(model, df) ==
    { LET latest == LatestRow(IsIn(df, {hospital_pk}))
          feat == OverloadFeatures(latest)
          prob == model.answers
      IN [ hospital_pk |-> hospital_pk,
           forecast_date |-> latest.date + 1,
           overload_probability |-> prob,
           overload_flag |-> IF prob >= PROB_THRESHOLD THEN 1 ELSE 0,
           threshold_used |-> PROB_THRESHOLD,
           model_version |-> RF_MODEL_VERSION ] :
      hospital_pk \in { r.hospital_pk : r \in df } }

\* INSERT ... ON CONFLICT (hospital_pk, forecast_date) DO UPDATE SET <every other column>.
UpsertByForecastDate(table, rows) ==
    { old \in table : ~\E new \in rows : /\ new.hospital_pk = old.hospital_pk
                                          /\ new.forecast_date = old.forecast_date }
    \cup rows

\* prepare_xy of build_overload_predictions.py: the rows that have a next-week
\* stress and stress_lag2, and the label of a row.
Labelled(df) == { r \in df : r.stress_next # NaN /\ r.stress_lag2 # NaN }

\* A label whose boundary is exclusive.
overload_next_above(r) == IF r.stress_next > STRESS_OVERLOAD_THRESHOLD THEN 1 ELSE 0

overload_next(r) == IF r.stress_next >= STRESS_OVERLOAD_THRESHOLD THEN 1 ELSE 0

\* X, y of prepare_xy, a row of the matrix per labelled row of df (the key of the
\* row is kept as its index).
prepare_xy(df) ==
    { [ hospital_pk |-> r.hospital_pk,
        date |-> r.date,
        X |-> OverloadFeatures(r),
        y |-> overload_next(r) ] : r \in Labelled(df) }

Classes(df) == { e.y : e \in prepare_xy(df) }

MaxSplitHospitals == 6

\* The numbers of model runs made before a further one: two runs in all.
ModelRuns == {0, 1}

\* The hospitals that report a full house week after week; the others report
\* an empty ICU.
StrainedHospitals == {2, 5}
\* The strained hospital whose stress is 75.0 week after week
\* (0.5 * 99 + 0.3 * 85.0 with a risk proxy of 0.6 * 0.99 + 0.2 * 1.0 + 0.2 * 0.28).
ThresholdHospitals == {5}
TrainingProfile(h) ==
    IF h \in ThresholdHospitals
    THEN [icu_occupancy_rate |-> 99, inpatient_occupancy_rate |-> 100, covid_icu_burden_rate |-> 28]
    ELSE IF h \in StrainedHospitals
    THEN [icu_occupancy_rate |-> 100, inpatient_occupancy_rate |-> 100, covid_icu_burden_rate |-> 100]
    ELSE [icu_occupancy_rate |-> 0, inpatient_occupancy_rate |-> 50, covid_icu_burden_rate |-> 30]

\* The clean rows of hospital h reporting MaxRows weeks.
Reported(h) == { ProfileRow(h, d, TrainingProfile(h)) : d \in 1..MaxRows }

IdleModels ==
    /\ model_files = [path \in {XGB_MODEL_PATH, RF_MODEL_PATH} |-> NoFile]
    /\ fitted = {}
    /\ shuffles = {}
    /\ overload = {}
    /\ produced = {}
    /\ model_runs = 0

\* The feature table and the stress-feature table as the two builders leave them
\* for a clean table in which the hospitals 1 .. n have reported, before any
\* model run.
InitSplit ==
    /\ \E n \in 0..MaxSplitHospitals : clean = UNION { Reported(h) : h \in 1..n }
    /\ features = build_features(clean)
    /\ stress_features = StressFrame(clean)
    /\ reg_train_df = {} /\ reg_val_df = {} /\ reg_status = "idle"
    /\ cls_train_df = {} /\ cls_val_df = {} /\ cls_status = "idle"
    /\ IdleModels

IdleSplit ==
    /\ reg_train_df = {} /\ reg_val_df = {} /\ reg_status = "idle"
    /\ cls_train_df = {} /\ cls_val_df = {} /\ cls_status = "idle"

\* Between two model runs a further hospital reports and the clean layer, the
\* feature builder and the stress-feature builder are run again.
HospitalReports ==
    LET h == Cardinality({ r.hospital_pk : r \in clean }) + 1
    IN /\ h <= MaxSplitHospitals
       /\ LET rows == clean \cup Reported(h)
          IN /\ clean' = rows
             /\ features' = build_features(rows)
             /\ stress_features' = StressFrame(rows)
       /\ UNCHANGED <<forecast, splitVars, modelVars, notTrain>>

\* train_and_evaluate_group_holdout on the feature table: the trainings it can
\* complete, each with the permutation of its split, its two sides and the model
\* fitted.  There is none when train_test_split raises (no train side) or when
\* the train side has fewer rows than the grid search has folds.
RegressorTrainings ==
    LET hospitals == unique(HospitalColumn(features))
    IN IF features = {} \/ NTrain(Len(hospitals)) = 0 THEN {}
       ELSE UNION { LET train_df == IsIn(features, split.train)
                    IN IF Cardinality(train_df) < CV_FOLDS THEN {}
                       ELSE { [ shuffle |-> split.shuffle,
                                train_df |-> train_df,
                                val_df |-> IsIn(features, split.test),
                                model |-> model ] :
                              model \in Fit("xgb", train_df, Regressors) } :
                    split \in train_test_split(hospitals) }

\* load_or_train_model after a training t: the sides of the split, and the model
\* stored at MODEL_PATH (joblib.dump).
RegressorTrained(t) ==
    /\ reg_train_df' = t.train_df
    /\ reg_val_df' = t.val_df
    /\ reg_status' = "trained"
    /\ shuffles' = shuffles \cup {t.shuffle}
    /\ fitted' = fitted \cup {t.model}
    /\ model_files' = [model_files EXCEPT ![XGB_MODEL_PATH] = t.model]

\* build_forecast_layer.main when it completes: load_or_train_model ->
\* train_and_evaluate_group_holdout splits the feature table by hospital, fits,
\* stores the model at MODEL_PATH, and main upserts the forecasts of every hospital.
ForecastLayerMain ==
    /\ model_runs \in ModelRuns
    /\ features # {}
    /\ IF LoadsModel(XGB_MODEL_PATH)
       THEN /\ forecast' = UpsertByForecastDate(forecast,
                               ForecastResults(model_files[XGB_MODEL_PATH], features))
            /\ produced' = produced \cup { [ model_version |-> XGB_MODEL_VERSION,
                                            model |-> model_files[XGB_MODEL_PATH] ] }
            /\ reg_status' = "trained"
            /\ UNCHANGED <<reg_train_df, reg_val_df, shuffles, fitted, model_files>>
       ELSE \E t \in RegressorTrainings :
               /\ RegressorTrained(t)
               /\ forecast' = UpsertByForecastDate(forecast, ForecastResults(t.model, features))
               /\ produced' = produced \cup { [ model_version |-> XGB_MODEL_VERSION,
                                               model |-> t.model ] }
    /\ model_runs' = model_runs + 1
    /\ UNCHANGED <<clean, features, stress_features, cls_train_df, cls_val_df, cls_status,
                   overload, notTrain>>

\* The same run when it raises before a split is made: the feature table is
\* empty (main), or the split would leave the train side empty (train_test_split).
ForecastLayerRaises ==
    /\ model_runs \in ModelRuns
    /\ \/ features = {}
       \/ ~LoadsModel(XGB_MODEL_PATH) /\ NTrain(Len(unique(HospitalColumn(features)))) = 0
    /\ reg_status' = "ValueError"
    /\ model_runs' = model_runs + 1
    /\ UNCHANGED <<clean, features, stress_features, forecast, reg_train_df, reg_val_df,
                   cls_train_df, cls_val_df, cls_status,
                   model_files, fitted, shuffles, overload, produced, notTrain>>

\* The same run when the train side has fewer rows than the grid search has
\* folds: GridSearchCV(cv=3).fit raises ValueError before the model is stored.
ForecastFitRaises ==
    LET hospitals == unique(HospitalColumn(features))
    IN /\ model_runs \in ModelRuns
       /\ ~LoadsModel(XGB_MODEL_PATH)
       /\ features # {}
       /\ NTrain(Len(hospitals)) >= 1
       /\ \E split \in train_test_split(hospitals) :
             /\ Cardinality(IsIn(features, split.train)) < CV_FOLDS
             /\ shuffles' = shuffles \cup {split.shuffle}
       /\ reg_status' = "ValueError"
       /\ model_runs' = model_runs + 1
       /\ UNCHANGED <<clean, features, stress_features, forecast, reg_train_df, reg_val_df,
                      cls_train_df, cls_val_df, cls_status,
                      model_files, fitted, overload, produced, notTrain>>

\* train_and_eval_hospital_holdout on the stress-feature table: the trainings it
\* can complete.  There is none with fewer than five hospitals, with no labelled
\* row on a side, or with one class only on the train side.
ClassifierTrainings ==
    LET hospitals == unique(HospitalColumn(stress_features))
    IN IF stress_features = {} \/ Len(hospitals) < MIN_HOSPITALS THEN {}
       ELSE UNION { LET train_df == IsIn(stress_features, split.train)
                        val_df == IsIn(stress_features, split.test)
                    IN IF Classes(train_df) # {0, 1} \/ prepare_xy(val_df) = {} THEN {}
                       ELSE { [ shuffle |-> split.shuffle,
                                train_df |-> train_df,
                                val_df |-> val_df,
                                model |-> model ] :
                              model \in Fit("rf", prepare_xy(train_df), Classifiers) } :
                    split \in train_test_split(hospitals) }

\* load_or_train after a training t.
ClassifierTrained(t) ==
    /\ cls_train_df' = t.train_df
    /\ cls_val_df' = t.val_df
    /\ cls_status' = "trained"
    /\ shuffles' = shuffles \cup {t.shuffle}
    /\ fitted' = fitted \cup {t.model}
    /\ model_files' = [model_files EXCEPT ![RF_MODEL_PATH] = t.model]

\* build_overload_predictions.main when it completes: load_or_train ->
\* train_and_eval_hospital_holdout splits the stress-feature table by hospital,
\* fits, stores the model at MODEL_PATH, and main upserts one row per hospital.
OverloadMain ==
    /\ model_runs \in ModelRuns
    /\ stress_features # {}
    /\ IF LoadsModel(RF_MODEL_PATH)
       THEN /\ overload' = UpsertByForecastDate(overload,
                               OverloadResults(model_files[RF_MODEL_PATH], stress_features))
            /\ produced' = produced \cup { [ model_version |-> RF_MODEL_VERSION,
                                            model |-> model_files[RF_MODEL_PATH] ] }
            /\ cls_status' = "trained"
            /\ UNCHANGED <<cls_train_df, cls_val_df, shuffles, fitted, model_files>>
       ELSE \E t \in ClassifierTrainings :
               /\ ClassifierTrained(t)
               /\ overload' = UpsertByForecastDate(overload, OverloadResults(t.model, stress_features))
               /\ produced' = produced \cup { [ model_version |-> RF_MODEL_VERSION,
                                               model |-> t.model ] }
    /\ model_runs' = model_runs + 1
    /\ UNCHANGED <<clean, features, stress_features, forecast, reg_train_df, reg_val_df,
                   reg_status, notTrain>>

\* The same run when it raises before a split is made: the table is empty
\* (main) or names fewer than five hospitals (train_and_eval_hospital_holdout).
OverloadRaises ==
    /\ model_runs \in ModelRuns
    /\ \/ stress_features = {}
       \/ ~LoadsModel(RF_MODEL_PATH) /\ Len(unique(HospitalColumn(stress_features))) < MIN_HOSPITALS
    /\ cls_status' = "ValueError"
    /\ model_runs' = model_runs + 1
    /\ UNCHANGED <<clean, features, stress_features, forecast, reg_train_df, reg_val_df,
                   reg_status, cls_train_df, cls_val_df,
                   model_files, fitted, shuffles, overload, produced, notTrain>>

\* The same run when the labels do not carry the evaluation: with no labelled
\* row on a side fit or predict_proba raises ValueError, and with one class on
\* the train side predict_proba has one column and line 99 raises IndexError.
\* Both come before the model is stored.
OverloadFitRaises ==
    LET hospitals == unique(HospitalColumn(stress_features))
    IN /\ model_runs \in ModelRuns
       /\ ~LoadsModel(RF_MODEL_PATH)
       /\ stress_features # {}
       /\ Len(hospitals) >= MIN_HOSPITALS
       /\ \E split \in train_test_split(hospitals) :
             LET classes == Classes(IsIn(stress_features, split.train))
                 val_rows == Labelled(IsIn(stress_features, split.test))
             IN /\ classes # {0, 1} \/ val_rows = {}
                /\ cls_status' = IF classes # {} /\ val_rows # {} THEN "IndexError" ELSE "ValueError"
                /\ shuffles' = shuffles \cup {split.shuffle}
       /\ model_runs' = model_runs + 1
       /\ UNCHANGED <<clean, features, stress_features, forecast, reg_train_df, reg_val_df,
                      reg_status, cls_train_df, cls_val_df,
                      model_files, fitted, overload, produced, notTrain>>

(***************************************************************************)
(* A stage script step by step: each main opens one psycopg2 connection    *)
(* (one transaction), reads its tables, computes its rows, sends them with *)
(* execute_batch and commits once, as its last statement.  The rows of a   *)
(* run fit in one page of execute_batch (page_size=1000).  A script that   *)
(* ends before its commit, by an exception or by being killed, closes the  *)
(* connection, and the server rolls the open transaction back.             *)
(***************************************************************************)
Stages == {"features", "stress", "forecast", "overload", "alerts"}

\* The numbers of scripts started before a further one: three runs in all.
RerunRuns == {0, 1, 2}

\* The tables of the database, by name.
Tables ==
    [ clean |-> clean, features |-> features, stress_features |-> stress_features,
      forecast |-> forecast, overload |-> overload, alerts |-> alerts ]

\* The table a stage writes.
OutputTable(stage) ==
    CASE stage = "features" -> "features"
      [] stage = "stress" -> "stress_features"
      [] stage = "forecast" -> "forecast"
      [] stage = "overload" -> "overload"
      [] stage = "alerts" -> "alerts"

NoRerun == [ stage |-> "none", before |-> <<>>, phase |-> "none" ]

IdleRerun ==
    /\ run_stage = "none"
    /\ run_pc = "idle"
    /\ run_results = {}
    /\ run_before = <<>>
    /\ run_no = 0
    /\ rerun = NoRerun

\* The table of five hospitals, before any stage has run.
InitRerun ==
    /\ clean = UNION { Reported(h) : h \in 1..MIN_HOSPITALS }
    /\ features = {} /\ stress_features = {} /\ forecast = {} /\ alerts = {}
    /\ IdleModels
    /\ IdleRerun

\* A stage script is started: psycopg2.connect.
RunStarts(stage) ==
    /\ run_pc = "idle"
    /\ run_no \in RerunRuns
    /\ run_stage' = stage
    /\ run_pc' = "connected"
    /\ run_results' = {}
    /\ run_before' = Tables
    /\ run_no' = run_no + 1
    /\ rerun' = IF rerun.phase = "failed" /\ rerun.stage = stage
                THEN [rerun EXCEPT !.phase = "rerunning"]
                ELSE NoRerun
    /\ UNCHANGED <<features, stress_features, forecast, overload, alerts, clock,
                   splitVars, model_files, fitted, shuffles, produced, notRerun>>

\* The running script has its result rows.
Computed(results) ==
    /\ run_pc' = "computed"
    /\ run_results' = results
    /\ UNCHANGED <<run_stage, run_before, run_no, rerun>>

\* build_features_layer.main up to line 116.
FeaturesComputes ==
    /\ run_pc = "connected" /\ run_stage = "features"
    /\ clean # {}
    /\ Computed(StampCreated(build_features(clean), clock))
    /\ clock' = clock + 1
    /\ UNCHANGED <<features, stress_features, forecast, overload, alerts,
                   splitVars, model_files, fitted, shuffles, produced, notRerun>>

\* build_stress_features.main up to line 135.
StressComputes ==
    /\ run_pc = "connected" /\ run_stage = "stress"
    /\ clean # {}
    /\ Computed(StressFrame(clean))
    /\ UNCHANGED <<features, stress_features, forecast, overload, alerts, clock,
                   splitVars, model_files, fitted, shuffles, produced, notRerun>>

\* build_forecast_layer.main up to line 218: the model is fitted and stored at
\* MODEL_PATH before a row is sent.
ForecastComputes ==
    /\ run_pc = "connected" /\ run_stage = "forecast"
    /\ ~LoadsModel(XGB_MODEL_PATH)
    /\ \E t \in RegressorTrainings :
          /\ RegressorTrained(t)
          /\ Computed(ForecastResults(t.model, features))
    /\ UNCHANGED <<features, stress_features, forecast, overload, alerts, clock,
                   cls_train_df, cls_val_df, cls_status, produced, notRerun>>

\* build_overload_predictions.main up to line 186.
OverloadComputes ==
    /\ run_pc = "connected" /\ run_stage = "overload"
    /\ ~LoadsModel(RF_MODEL_PATH)
    /\ \E t \in ClassifierTrainings :
          /\ ClassifierTrained(t)
          /\ Computed(OverloadResults(t.model, stress_features))
    /\ UNCHANGED <<features, stress_features, forecast, overload, alerts, clock,
                   reg_train_df, reg_val_df, reg_status, produced, notRerun>>

\* build_alert_layer.main up to line 147.
AlertsComputes ==
    /\ run_pc = "connected" /\ run_stage = "alerts"
    /\ Computed(AlertResults(clean, forecast))
    /\ UNCHANGED <<features, stress_features, forecast, overload, alerts, clock,
                   splitVars, model_files, fitted, shuffles, produced, notRerun>>

\* execute_batch(cursor, insert_query, results, page_size=1000): the rows are
\* sent in the open transaction; no other connection sees them yet.
RunExecutes ==
    /\ run_pc = "computed"
    /\ run_pc' = "sent"
    /\ UNCHANGED <<run_stage, run_results, run_before, run_no, rerun,
                   features, stress_features, forecast, overload, alerts, clock,
                   splitVars, model_files, fitted, shuffles, produced, notRerun>>

\* conn.commit(): the upserts of the rows sent take effect on the table of the stage.
RunCommits ==
    /\ run_pc = "sent"
    /\ features' = IF run_stage = "features" THEN UpsertFeatures(features, run_results) ELSE features
    /\ stress_features' = IF run_stage = "stress" THEN UpsertStress(stress_features, run_results)
                          ELSE stress_features
    /\ forecast' = IF run_stage = "forecast" THEN UpsertByForecastDate(forecast, run_results)
                   ELSE forecast
    /\ overload' = IF run_stage = "overload" THEN UpsertByForecastDate(overload, run_results)
                   ELSE overload
    /\ alerts' = IF run_stage = "alerts" THEN UpsertAll(alerts, run_results) ELSE alerts
    /\ produced' = produced \cup
          { [ model_version |-> r.model_version,
              model |-> model_files[IF run_stage = "forecast" THEN XGB_MODEL_PATH ELSE RF_MODEL_PATH] ] :
            r \in { x \in run_results : run_stage \in {"forecast", "overload"} } }
    /\ run_stage' = "none"
    /\ run_pc' = "idle"
    /\ run_results' = {}
    /\ rerun' = IF rerun.phase = "rerunning" THEN [rerun EXCEPT !.phase = "done"] ELSE rerun
    /\ UNCHANGED <<run_before, run_no, clock, splitVars, model_files, fitted, shuffles, notRerun>>

\* The running script ends before its commit: an exception leaves main, or the
\* process is killed.  The transaction is rolled back; what the script has
\* stored outside the database (the model at MODEL_PATH) stays.
RunFails ==
    /\ run_pc \in {"connected", "computed", "sent"}
    /\ run_stage' = "none"
    /\ run_pc' = "idle"
    /\ run_results' = {}
    /\ rerun' = [ stage |-> run_stage, before |-> run_before, phase |-> "failed" ]
    /\ UNCHANGED <<run_before, run_no, features, stress_features, forecast, overload, alerts,
                   clock, splitVars, model_files, fitted, shuffles, produced, notRerun>>

(***************************************************************************)
(* run_full_pipeline.py: main calls run_step on five scripts, one after the *)
(* other; run_step starts the script as a subprocess and raises             *)
(* RuntimeError when its return code is not 0.                              *)
(***************************************************************************)
\* Lines 50-54: the (name, script) arguments of the run_step calls of main.
PipelineSteps ==
    << [name |-> "Build Clean Layer", script |-> "scripts/build_clean_layer.py"],
       [name |-> "Build Stress Features", script |-> "scripts/build_stress_features.py"],
       [name |-> "Train & Build Forecast", script |-> "scripts/build_forecast_layer.py"],
       [name |-> "Build Overload Predictions", script |-> "scripts/build_overload_layer.py"],
       [name |-> "Build Oxygen Alerts", script |-> "scripts/build_oxygen_alert_layer.py"] >>

\* The python scripts of the directory scripts/ of the repository.
ScriptsPresent ==
    { "scripts/build_alert_layer.py", "scripts/build_clean_layer.py",
      "scripts/build_features_layer.py", "scripts/build_forecast_layer.py",
      "scripts/build_overload_predictions.py", "scripts/build_stress_features.py",
      "scripts/generate_raw_schema.py", "scripts/generate_simulated_week.py",
      "scripts/load_raw.py", "scripts/run_full_pipeline.py" }

\* subprocess.run(["python", script]).returncode: python leaves with 2 when it
\* cannot open the script; a script that runs leaves with 0, or with 1 when an
\* exception leaves its main.
ReturnCodes(script) == IF script \in ScriptsPresent THEN {0, 1} ELSE {2}

MaxPipelineRuns == 3

IdlePipeline ==
    /\ pipe_run = 0
    /\ pipe_pc = 0
    /\ pipe_status = "idle"
    /\ pipe_done = <<>>
    /\ pipe_log = <<>>

IdleRest == IdlePipeline /\ IdleModels /\ IdleRerun

\* main is started (lines 46-48).
PipelineStart ==
    /\ pipe_status # "running"
    /\ pipe_run < MaxPipelineRuns
    /\ pipe_run' = pipe_run + 1
    /\ pipe_pc' = 1
    /\ pipe_status' = "running"
    /\ pipe_done' = <<>>
    /\ UNCHANGED <<pipe_log, notPipe>>

\* run_step whose script leaves with 0: main goes on to the next call, and after
\* the last one to print_summary and its end.
RunStepCompletes ==
    /\ pipe_status = "running"
    /\ 0 \in ReturnCodes(PipelineSteps[pipe_pc].script)
    /\ pipe_done' = Append(pipe_done, PipelineSteps[pipe_pc].script)
    /\ pipe_log' = Append(pipe_log, <<pipe_run, PipelineSteps[pipe_pc].script, 0>>)
    /\ pipe_pc' = pipe_pc + 1
    /\ pipe_status' = IF pipe_pc = Len(PipelineSteps) THEN "finished" ELSE "running"
    /\ UNCHANGED <<pipe_run, notPipe>>

\* run_step whose script leaves with another code: RuntimeError leaves run_step
\* and main.
RunStepFails ==
    /\ pipe_status = "running"
    /\ \E returncode \in ReturnCodes(PipelineSteps[pipe_pc].script) \ {0} :
          pipe_log' = Append(pipe_log, <<pipe_run, PipelineSteps[pipe_pc].script, returncode>>)
    /\ pipe_status' = "failed"
    /\ UNCHANGED <<pipe_run, pipe_pc, pipe_done, notPipe>>

Init == IdleFn /\ IdleTables /\ IdleFeatures /\ IdleForecast /\ IdleStress /\ IdleSplit /\ IdleRest

Next == NextTables

Spec == Init /\ [][Next]_vars

InitAlertFn == InitFn /\ IdleTables /\ IdleFeatures /\ IdleForecast /\ IdleStress /\ IdleSplit /\ IdleRest

NextFn == ComputeAlert \/ MergeAlerts

SpecAlertFn == InitAlertFn /\ [][NextFn]_vars

InitFeatureLayer ==
    /\ IdleFn
    /\ forecast = {} /\ alerts = {} /\ occ_used = {} /\ replaced = {} /\ writes = 0
    /\ InitFeatures
    /\ IdleForecast
    /\ IdleStress
    /\ IdleSplit /\ IdleRest

NextFeatures == FeatureMain \/ FeatureMainB

SpecFeatures == InitFeatureLayer /\ [][NextFeatures]_vars

InitForecastLayer ==
    /\ IdleFn /\ IdleTables /\ IdleStress /\ IdleSplit /\ IdleRest
    /\ clean_b = {} /\ features_b = {} /\ feat_done = {} /\ clock = 1
    /\ InitForecast

NextForecast ==
    \/ \E raw \in RawPredictions : ForecastStep(raw)
    \/ ForecastWrite

SpecForecast == InitForecastLayer /\ [][NextForecast]_vars

\* The loop of recursive_forecast and the write of main run to their end.
SpecForecastFair == SpecForecast /\ WF_vars(NextForecast)

InitStressLayer ==
    /\ IdleFn
    /\ forecast = {} /\ alerts = {} /\ occ_used = {} /\ replaced = {} /\ writes = 0
    /\ features = {} /\ features_b = {} /\ feat_done = {} /\ clock = 1
    /\ IdleForecast
    /\ InitStress
    /\ IdleSplit /\ IdleRest

NextStress == StressMain \/ StressMainB

SpecStress == InitStressLayer /\ [][NextStress]_vars

\* The feature builder and the stress scorer over one clean table of several
\* hospitals.
InitSeriesLayer ==
    /\ IdleFn
    /\ forecast = {} /\ alerts = {} /\ occ_used = {} /\ replaced = {} /\ writes = 0
    /\ clean \in StressTables(1, MaxStressRows)
    /\ IdleFeatures
    /\ IdleForecast
    /\ IdleStress
    /\ IdleSplit /\ IdleRest

NextSeries == FeatureMain \/ StressMain

SpecSeries == InitSeriesLayer /\ [][NextSeries]_vars

\* The alert layer next to the overload layer: every hospital has reported once,
\* some hospitals have a forecast row, and the overload layer writes its
\* predictions between the runs of the alert layer.
InitAlertInputs ==
    /\ IdleFn
    /\ \E obs \in [Hospitals -> ObsValues] :
          clean = { [hospital_pk |-> h, date |-> 1, icu_occupancy_rate |-> obs[h]] :
                      h \in Hospitals }
    /\ \E S \in SUBSET Hospitals : \E fc \in [S -> ForecastValues] :
          forecast = { [hospital_pk |-> h, forecast_date |-> 2,
                        predicted_icu_occupancy |-> fc[h]] : h \in S }
    /\ alerts = {} /\ occ_used = {} /\ replaced = {} /\ writes = 0
    /\ IdleFeatures
    /\ IdleForecast
    /\ IdleStress
    /\ IdleSplit /\ IdleRest

\* One run of build_overload_predictions.py as the tables of the alert layer see
\* it: a row per hospital with a usable observation, dated a week after the
\* hospital's latest one, with the probability the classifier answers.
OverloadWrites(prob) ==
    /\ overload' = UpsertByForecastDate(overload,
          { [ hospital_pk |-> r.hospital_pk,
              forecast_date |-> r.date + 1,
              overload_probability |-> prob,
              overload_flag |-> IF prob >= PROB_THRESHOLD THEN 1 ELSE 0,
              threshold_used |-> PROB_THRESHOLD,
              model_version |-> RF_MODEL_VERSION ] :
            r \in LatestPerHospital(DropNaOccupancy(clean)) })
    /\ UNCHANGED <<fnVars, tblVars, featVars, rfVars, stressVars, splitVars, pipeVars,
                   rerunVars, model_files, fitted, shuffles, produced, model_runs>>

NextAlertInputs ==
    \/ \E prob \in Classifiers : OverloadWrites(prob)
    \/ AlertMain

SpecAlertInputs == InitAlertInputs /\ [][NextAlertInputs]_vars

InitSplitLayer ==
    /\ IdleFn
    /\ forecast = {} /\ alerts = {} /\ occ_used = {} /\ replaced = {} /\ writes = 0
    /\ clean_b = {} /\ features_b = {} /\ feat_done = {} /\ clock = 1
    /\ IdleForecast
    /\ stress_features_b = {} /\ stress_done = {}
    /\ InitSplit
    /\ IdlePipeline
    /\ IdleRerun

NextSplit ==
    \/ HospitalReports
    \/ ForecastLayerMain \/ ForecastLayerRaises \/ ForecastFitRaises
    \/ OverloadMain \/ OverloadRaises \/ OverloadFitRaises

SpecSplit == InitSplitLayer /\ [][NextSplit]_vars

InitRerunLayer ==
    /\ IdleFn
    /\ occ_used = {} /\ replaced = {} /\ writes = 0
    /\ clean_b = {} /\ features_b = {} /\ feat_done = {} /\ clock = 1
    /\ IdleForecast
    /\ stress_features_b = {} /\ stress_done = {}
    /\ IdleSplit
    /\ IdlePipeline
    /\ InitRerun

NextRerun ==
    \/ \E stage \in Stages : RunStarts(stage)
    \/ FeaturesComputes \/ StressComputes \/ ForecastComputes \/ OverloadComputes \/ AlertsComputes
    \/ RunExecutes \/ RunCommits \/ RunFails

SpecRerun == InitRerunLayer /\ [][NextRerun]_vars

InitPipeline ==
    /\ IdleFn /\ IdleTables /\ IdleFeatures /\ IdleForecast /\ IdleStress /\ IdleSplit
    /\ IdleModels
    /\ IdleRerun
    /\ IdlePipeline

NextPipeline == PipelineStart \/ RunStepCompletes \/ RunStepFails

SpecPipeline == InitPipeline /\ [][NextPipeline]_vars

(***************************************************************************)
(* Claims about the alert functions (specification SpecAlertFn).           *)
(***************************************************************************)
\* The total order Normal < Watch < Critical, as the position in this sequence.
LevelOrder == <<"Normal", "Watch", "Critical">>
LevelPos(x) == CHOOSE i \in 1..3 : LevelOrder[i] = x
Greater(a, b) == IF LevelPos(a) >= LevelPos(b) THEN a ELSE b

\* C1: for each of the 9 combinations of icu_alert and oxygen_alert the merged
\* final_alert is the greater of the two under Normal < Watch < Critical; swapping
\* the two arguments gives the same result and merging a level with itself gives
\* that level.
C1_FinalIsGreater ==
    fn_merge # <<>> =>
        /\ fn_merge[1] = Greater(fn_icu, fn_oxy)
        /\ fn_merge[2] = fn_merge[1]
        /\ fn_merge[3] = fn_icu

C1_Witness ==
    /\ fn_merge # <<>>
    /\ fn_icu = "Watch"
    /\ fn_oxy = "Critical"
    /\ fn_merge[1] = "Critical"

\* The least week n >= 1 at which INITIAL_OXYGEN - n * burn_rate <= 0, capped at 52.
DepletionWeek(burn_rate) ==
    LET S == { n \in 1..MAX_WEEKS : INITIAL_OXYGEN * 100 - n * burn_rate <= 0 }
    IN IF S = {} THEN MAX_WEEKS ELSE CHOOSE n \in S : \A m \in S : n <= m

\* C7: with burn_rate = occupancy * BURN_SCALE, the simulated weeks are 52 when
\* burn_rate <= 0 and otherwise the least n >= 1 with INITIAL_OXYGEN - n * burn_rate
\* <= 0, capped at 52; occupancy 0.9 gives 3 weeks.
C7_OxygenWeeks ==
    fn_out # <<>> =>
        LET occupancy == ClampOccupancy(fn_occ)
            burn_rate == occupancy * BURN_SCALE
        IN /\ burn_rate <= 0 => fn_out[1].oxygen_weeks_remaining = 52
           /\ burn_rate > 0 => fn_out[1].oxygen_weeks_remaining = DepletionWeek(burn_rate)
           /\ occupancy = 90 => fn_out[1].oxygen_weeks_remaining = 3

C7_Witness ==
    /\ fn_out # <<>>
    /\ fn_occ = 90
    /\ fn_out[1].oxygen_weeks_remaining = 3

\* C8: icu_alert is Critical iff occupancy >= 0.9, Watch iff 0.75 <= occupancy < 0.9,
\* Normal otherwise; oxygen_alert is Critical iff weeks <= 3, Watch iff 3 < weeks <= 6,
\* Normal otherwise.
C8_Thresholds ==
    fn_out # <<>> =>
        LET occupancy == ClampOccupancy(fn_occ)
            weeks == fn_out[1].oxygen_weeks_remaining
        IN /\ (fn_out[1].icu_alert_level = "Critical") <=> (occupancy >= 90)
           /\ (fn_out[1].icu_alert_level = "Watch") <=> (75 <= occupancy /\ occupancy < 90)
           /\ (fn_out[1].icu_alert_level = "Normal") <=> (occupancy < 75)
           /\ (fn_out[1].oxygen_alert_level = "Critical") <=> (weeks <= 3)
           /\ (fn_out[1].oxygen_alert_level = "Watch") <=> (3 < weeks /\ weeks <= 6)
           /\ (fn_out[1].oxygen_alert_level = "Normal") <=> (weeks > 6)

C8_Witness ==
    /\ fn_out # <<>>
    /\ fn_occ = 90
    /\ fn_out[1].icu_alert_level = "Critical"
    /\ fn_out[1].oxygen_weeks_remaining = 3
    /\ fn_out[1].oxygen_alert_level = "Critical"

(***************************************************************************)
(* Claims about the alert layer's runs (specification Spec).               *)
(***************************************************************************)
\* The simulated weeks of every occupancy of the grid over [0, 1.5].
WeeksOf == [ occupancy \in 0..150 |-> OxygenWeeks(occupancy) ]

\* C9: after any sequence of alert-layer runs against changing observation and
\* forecast tables, every stored alert row has final_alert_level = the greater of
\* icu_alert_level and oxygen_alert_level, oxygen_days_remaining = 7 *
\* oxygen_weeks_remaining and 1 <= oxygen_weeks_remaining <= 52; the fields of a row
\* are those one run computed from one occupancy (an upsert replaces them together),
\* and a key holds one row.
C9_AlertRowsConsistent ==
    \A r \in alerts :
        /\ r.final_alert_level = Greater(r.icu_alert_level, r.oxygen_alert_level)
        /\ r.oxygen_days_remaining = 7 * r.oxygen_weeks_remaining
        /\ 1 <= r.oxygen_weeks_remaining /\ r.oxygen_weeks_remaining <= 52
        /\ \E occupancy \in 0..150 :
              /\ r.icu_alert_level = IcuAlert(occupancy)
              /\ r.oxygen_weeks_remaining = WeeksOf[occupancy]
              /\ r.oxygen_alert_level = OxygenAlert(r.oxygen_weeks_remaining)
        /\ \A s \in alerts : (s.hospital_pk = r.hospital_pk /\ s.date = r.date) => s = r

\* A row that an upsert overwrote, and whose levels all changed with it.
C9_Witness ==
    \E r \in alerts :
        /\ <<r.hospital_pk, r.date>> \in replaced
        /\ r.icu_alert_level = "Normal"
        /\ r.final_alert_level = "Normal"
        /\ \E o \in clean : /\ o.hospital_pk = r.hospital_pk
                            /\ o.date = r.date
                            /\ o.icu_occupancy_rate = 160

HasObservation(h) == \E r \in clean : r.hospital_pk = h /\ r.icu_occupancy_rate # NaN
LatestObservation(h) ==
    CHOOSE r \in clean :
        /\ r.hospital_pk = h /\ r.icu_occupancy_rate # NaN
        /\ \A s \in clean : (s.hospital_pk = h /\ s.icu_occupancy_rate # NaN) => s.date <= r.date
HasForecast(h) == \E f \in forecast : f.hospital_pk = h
TopForecast(h) ==
    CHOOSE f \in forecast :
        /\ f.hospital_pk = h
        /\ \A g \in forecast : g.hospital_pk = h => g.forecast_date <= f.forecast_date
Clamp150(x) == IF x < 0 THEN 0 ELSE IF x > 150 THEN 150 ELSE x
ExpectedOccupancy(h) ==
    Clamp150(IF HasForecast(h) THEN TopForecast(h).predicted_icu_occupancy
             ELSE LatestObservation(h).icu_occupancy_rate)

\* C10: for each hospital with at least one observation, the occupancy fed to the
\* ICU alert and to the oxygen simulation is the hospital's forecast value of the
\* greatest forecast_date when it has a forecast row, else its latest observed
\* icu_occupancy_rate, clamped to [0, 1.5] in both cases.  (Stated of the latest
\* run, while the tables it read are unchanged.)
C10_OccupancySource ==
    occ_used # {} =>
        \A h \in Hospitals :
            /\ HasObservation(h) <=> \E p \in occ_used : p[1] = h
            /\ HasObservation(h) =>
                  /\ \A p \in occ_used : p[1] = h => p[2] = ExpectedOccupancy(h)
                  /\ \E r \in alerts :
                        /\ r.hospital_pk = h
                        /\ r.date = LatestObservation(h).date
                        /\ r.icu_alert_level = IcuAlert(ExpectedOccupancy(h))
                        /\ r.oxygen_weeks_remaining = OxygenWeeks(ExpectedOccupancy(h))

\* Hospital 1 has an observation and forecast rows at two dates: the forecast of
\* the later date is the occupancy used.
C10_Witness ==
    /\ occ_used = { <<1, 30>> }
    /\ \E o \in clean : o.hospital_pk = 1 /\ o.icu_occupancy_rate = 60
    /\ \E f \in forecast : f.hospital_pk = 1 /\ f.forecast_date = 1 /\ f.predicted_icu_occupancy = 95
    /\ \E f \in forecast : f.hospital_pk = 1 /\ f.forecast_date = 2 /\ f.predicted_icu_occupancy = 30

\* Hospital 2 has observations at two dates and no forecast row: its latest
\* observation, clamped to 1.5, is the occupancy used.
C10_WitnessFallback ==
    /\ occ_used = { <<2, 150>> }
    /\ forecast # {}
    /\ \E o \in clean : o.hospital_pk = 2 /\ o.date = 1 /\ o.icu_occupancy_rate = 60
    /\ \E o \in clean : o.hospital_pk = 2 /\ o.date = 2 /\ o.icu_occupancy_rate = 160

(***************************************************************************)
(* Claims about the feature builder (specification SpecFeatures).          *)
(***************************************************************************)
\* The observations of hospital h dated before D, and the 4 latest of them.
PriorObservations(table, h, D) == { o \in table : o.hospital_pk = h /\ o.date < D }
Preceding4(table, h, D) ==
    LET prior == PriorObservations(table, h, D)
    IN { o \in prior : Cardinality({ q \in prior : q.date > o.date }) < 4 }

RECURSIVE SumRates(_)
SumRates(rows) ==
    IF rows = {} THEN 0
    ELSE LET o == CHOOSE x \in rows : TRUE
         IN o.icu_occupancy_rate + SumRates(rows \ {o})

RECURSIVE SumSquaredRates(_)
SumSquaredRates(rows) ==
    IF rows = {} THEN 0
    ELSE LET o == CHOOSE x \in rows : TRUE
         IN o.icu_occupancy_rate * o.icu_occupancy_rate + SumSquaredRates(rows \ {o})

\* Every rolling feature of every row of table feats is the statistic of the 4
\* observations of table obs that precede the row's date.
RollsOverPreceding4(feats, obs) ==
    \A r \in feats :
        LET w == Preceding4(obs, r.hospital_pk, r.date)
        IN /\ Cardinality(w) = 4
           /\ \A o \in w : o.icu_occupancy_rate # NaN
           /\ r.roll_mean_4 = SumRates(w)
           /\ r.roll_std_4 = << 4 * SumSquaredRates(w) - SumRates(w) * SumRates(w), 12 >>
           /\ \E o \in w : r.roll_min_4 = o.icu_occupancy_rate
           /\ \A o \in w : r.roll_min_4 <= o.icu_occupancy_rate
           /\ \E o \in w : r.roll_max_4 = o.icu_occupancy_rate
           /\ \A o \in w : r.roll_max_4 >= o.icu_occupancy_rate

\* The rolling features table feats holds for (h, D): none or one.
RollsAt(feats, h, D) ==
    { << r.roll_mean_4, r.roll_std_4, r.roll_min_4, r.roll_max_4 >> :
        r \in { x \in feats : x.hospital_pk = h /\ x.date = D } }

\* The two histories hold the same observations of hospital h before D.
AgreeBefore(h, D) == PriorObservations(clean, h, D) = PriorObservations(clean_b, h, D)

\* C4: roll_mean_4, roll_std_4, roll_min_4 and roll_max_4 of the feature row of
\* (hospital, D) are computed from exactly the hospital's 4 observations that
\* precede D; two histories that agree on the hospital's observations before D
\* (and differ at D or later) give the same rolling features at D.
C4_StrictLookBack ==
    /\ "a" \in feat_done => RollsOverPreceding4(features, clean)
    /\ "b" \in feat_done => RollsOverPreceding4(features_b, clean_b)
    /\ feat_done = {"a", "b"} =>
          \A h \in Hospitals, D \in 1..MaxRows :
              AgreeBefore(h, D) => RollsAt(features, h, D) = RollsAt(features_b, h, D)

\* The two histories differ in the observation at D itself, hospital 2 (whose rows
\* follow hospital 1's in the frame) has a feature row at D in both, and the
\* rolling features of the two rows are equal.
C4_Witness ==
    /\ feat_done = {"a", "b"}
    /\ \E r \in features, q \in features_b :
          /\ r.hospital_pk = 2 /\ q.hospital_pk = 2
          /\ r.date = q.date
          /\ r.icu_occupancy_rate # q.icu_occupancy_rate
          /\ r.roll_mean_4 = q.roll_mean_4
          /\ r.roll_mean_4 > 0
          /\ \E o \in clean : o.hospital_pk = 1

(***************************************************************************)
(* Claims about recursive_forecast (specification SpecForecast).           *)
(***************************************************************************)
\* C2: whatever the regressor returns (negative values and values above 1.2
\* included) and whatever the scenario multiplier, every value emitted at every
\* step, and every value written to the forecast table, lies in [0, 1.2]; an
\* out-of-range raw prediction raises nothing and aborts nothing: each call emits
\* its value and, while steps remain, the next step can run on any raw prediction.
C2_ForecastInRange ==
    /\ \A i \in 1..Len(rf_forecasts) : 0 <= rf_forecasts[i][2] /\ rf_forecasts[i][2] <= 120
    /\ \A f \in forecast : 0 <= f.predicted_icu_occupancy /\ f.predicted_icu_occupancy <= 120
    /\ Len(rf_forecasts) = Len(rf_calls)
    /\ (1 <= rf_step /\ rf_step <= rf_steps) =>
          /\ Len(rf_forecasts) = rf_step - 1
          /\ \A raw \in RawPredictions : ENABLED ForecastStep(raw)
    /\ rf_step > rf_steps => Len(rf_forecasts) = rf_steps

\* All 4 steps ran although the regressor returned a negative value and, under the
\* multiplier 1.5, values that leave the range only once scaled or were above it.
C2_Witness ==
    /\ rf_step = 6
    /\ rf_mult = 15
    /\ Len(rf_forecasts) = 4
    /\ rf_calls[1].raw = 0 - 20
    /\ rf_calls[2].raw = 140
    /\ rf_calls[3].raw = 60
    /\ rf_forecasts[1][2] = 0
    /\ rf_forecasts[2][2] = 120
    /\ Cardinality(forecast) = 4

\* The lags of the feature vector passed to the regressor at a step.
LagsUsed(k) ==
    { rf_calls[k].X.lag_1, rf_calls[k].X.lag_2, rf_calls[k].X.lag_3, rf_calls[k].X.lag_4 }

\* C3: for every step k > 1 the lag_1 used at step k is the value emitted at step
\* k - 1 and the lag_j used at step k (j = 2..4) is the lag_(j-1) used at step k - 1;
\* every lag ever used is a lag of the initial feature row or an earlier prediction
\* of the forecaster.
C3_LagChain ==
    \A k \in 1..Len(rf_calls) :
        /\ k > 1 =>
              /\ rf_calls[k].X.lag_1 = rf_forecasts[k - 1][2]
              /\ rf_calls[k].X.lag_2 = rf_calls[k - 1].X.lag_1
              /\ rf_calls[k].X.lag_3 = rf_calls[k - 1].X.lag_2
              /\ rf_calls[k].X.lag_4 = rf_calls[k - 1].X.lag_3
        /\ LagsUsed(k) \subseteq LagsUsed(1) \cup { rf_forecasts[i][2] : i \in 1..(k - 1) }

\* At step 4 the lags are the three earlier predictions, all different, and the
\* initial lag_1.
C3_Witness ==
    /\ Len(rf_calls) = 4
    /\ rf_calls[4].X.lag_1 = rf_forecasts[3][2]
    /\ rf_calls[4].X.lag_2 = rf_forecasts[2][2]
    /\ rf_calls[4].X.lag_3 = rf_forecasts[1][2]
    /\ rf_calls[4].X.lag_4 = rf_calls[1].X.lag_1
    /\ rf_forecasts[1][2] = 0 /\ rf_forecasts[2][2] = 60 /\ rf_forecasts[3][2] = 120
    /\ rf_calls[1].X.lag_1 = 80

\* The observation histories of hospital h agree on every date up to and
\* including D.
AgreeUpTo(h, D) ==
    { r \in clean : r.hospital_pk = h /\ r.date <= D }
    = { r \in clean_b : r.hospital_pk = h /\ r.date <= D }

\* The two histories of hospital h differ, and only after D.
DifferOnlyAfter(h, D) ==
    /\ AgreeUpTo(h, D)
    /\ { r \in clean : r.hospital_pk = h } # { r \in clean_b : r.hospital_pk = h }

\* Two ratios <<numerator, denominator>> with positive denominators are equal.
SameRatio(x, y) == x[1] * y[2] = y[1] * x[2]

\* The features of the classifier that look back only: every consumed feature but
\* stress_centered.
LookBackFeatures(row) ==
    << row.stress_lag1, row.stress_lag2, row.stress_roll3, row.stress_roll6,
       row.stress_roll6_std, row.icu_util, row.icu_delta_1w, row.oxygen_risk_proxy >>

\* The stress-feature rows of hospital h at date D in the two histories.
RowsAt(h, D) ==
    { pair \in stress_features \X stress_features_b :
        /\ pair[1].hospital_pk = h /\ pair[1].date = D
        /\ pair[2].hospital_pk = h /\ pair[2].date = D }

\* C5: for two observation histories of one hospital that agree on all dates up
\* to and including D and differ only after D, every feature the overload
\* classifier consumes at D (stress_lag1, stress_lag2, stress_roll3, stress_roll6,
\* stress_roll6_std, icu_util, icu_delta_1w, oxygen_risk_proxy, stress_centered)
\* has the same value in both histories.
C5_NoLabelLeak ==
    stress_done = {"a", "b"} =>
        \A h \in StressHospitals, D \in 1..MaxStressRows :
            DifferOnlyAfter(h, D) =>
                \A pair \in RowsAt(h, D) :
                    /\ LookBackFeatures(OverloadFeatures(pair[1]))
                         = LookBackFeatures(OverloadFeatures(pair[2]))
                    /\ SameRatio(OverloadFeatures(pair[1]).stress_centered,
                                 OverloadFeatures(pair[2]).stress_centered)

\* What does hold: under the same condition every consumed feature other than
\* stress_centered has the same value in both histories.
LookBackFeaturesAgree ==
    stress_done = {"a", "b"} =>
        \A h \in StressHospitals, D \in 1..MaxStressRows :
            DifferOnlyAfter(h, D) =>
                \A pair \in RowsAt(h, D) :
                    LookBackFeatures(OverloadFeatures(pair[1]))
                        = LookBackFeatures(OverloadFeatures(pair[2]))

\* Two histories of a hospital differ only after a date D at which three prior
\* weeks exist, and the stress_centered of D differs between them.
StressCenteredLeaks ==
    /\ stress_done = {"a", "b"}
    /\ \E h \in StressHospitals, D \in 1..MaxStressRows :
          /\ DifferOnlyAfter(h, D)
          /\ \E pair \in RowsAt(h, D) :
                /\ pair[1].stress_roll3 # NaN
                /\ ~SameRatio(pair[1].stress_centered, pair[2].stress_centered)

\* The hospital ids that contribute rows to a frame.
HospitalsOf(df) == { r.hospital_pk : r \in df }

\* C6: in the regressor training path and in the classifier training path, no
\* hospital has a row in both the training frame and the validation frame.
C6_HoldoutDisjoint ==
    /\ HospitalsOf(reg_train_df) \cap HospitalsOf(reg_val_df) = {}
    /\ HospitalsOf(cls_train_df) \cap HospitalsOf(cls_val_df) = {}

\* Both paths have trained on six hospitals of several rows each: four or more
\* hospitals on the training side and the others on the validation side.
C6_Witness ==
    /\ reg_status = "trained" /\ cls_status = "trained"
    /\ Cardinality(HospitalsOf(reg_train_df)) >= 4 /\ Cardinality(HospitalsOf(reg_val_df)) >= 1
    /\ Cardinality(HospitalsOf(cls_train_df)) >= 4 /\ Cardinality(HospitalsOf(cls_val_df)) >= 1
    /\ Cardinality(reg_train_df) > Cardinality(HospitalsOf(reg_train_df))
    /\ Cardinality(cls_val_df) > Cardinality(HospitalsOf(cls_val_df))
    /\ HospitalsOf(reg_train_df) # HospitalsOf(cls_train_df)

(***************************************************************************)
(* Termination of recursive_forecast (specification SpecForecastFair).     *)
(***************************************************************************)
\* The date of the hospital's most recent feature row.
last_known_date == LatestRow(features).date

\* The loop of recursive_forecast is over.
LoopOver == rf_step > rf_steps

\* What holds of the emitted pairs at every moment of a call with horizon N.
EmittedPairs ==
    /\ Len(rf_forecasts) <= rf_steps
    /\ Len(rf_calls) = Len(rf_forecasts)
    /\ \A s \in 1..Len(rf_forecasts) : rf_forecasts[s][1] = last_known_date + s
    /\ \A s, t \in 1..Len(rf_forecasts) : s < t => rf_forecasts[s][1] < rf_forecasts[t][1]
    /\ ~LoopOver => Len(rf_forecasts) = rf_step - 1
    /\ LoopOver =>
          /\ Len(rf_forecasts) = rf_steps
          /\ \A raw \in RawPredictions : ~ENABLED ForecastStep(raw)

\* C11: for a hospital with at least one feature row and a horizon N >= 1,
\* recursive_forecast ends after exactly N transitions with exactly N pairs, the
\* pair of step s dated last_known_date + s weeks, so that the N dates are
\* distinct and strictly increasing.
C11_TerminatesAfterN == []EmittedPairs /\ <>LoopOver

\* A call with the largest horizon, another than the 4 of main when the bound
\* allows, has ended with one pair per step on a table of two feature rows.
C11_Witness ==
    /\ LoopOver
    /\ rf_steps = MaxSteps
    /\ Cardinality(features) = 2
    /\ Len(rf_forecasts) = rf_steps
    /\ rf_forecasts[1][1] = last_known_date + 1
    /\ rf_forecasts[rf_steps][1] = last_known_date + rf_steps

\* A call with horizon 1 has ended with one pair.
C11_WitnessOneStep ==
    /\ LoopOver /\ rf_steps = 1 /\ Len(rf_forecasts) = 1

(***************************************************************************)
(* Re-running the feature builder (specification SpecFeatures).            *)
(***************************************************************************)
\* The columns of a feature row other than created_at.
ComputedColumns(r) ==
    << r.hospital_pk, r.date, r.icu_occupancy_rate, r.lag_1, r.lag_2, r.lag_3, r.lag_4,
       r.roll_mean_4, r.roll_std_4, r.roll_min_4, r.roll_max_4, r.delta_1, r.pct_change_1 >>

\* C12: a second run of the Feature Builder on unchanged Observations leaves the
\* feature table as the first run left it, every row equal field for field.
C12_RerunIdentical ==
    [][("a" \in feat_done /\ features_b' = features_b /\ clock' # clock)
          => features' = features]_vars

\* What does hold: the re-run leaves every column but created_at as it was.
RerunKeepsComputedColumns ==
    [][("a" \in feat_done /\ features_b' = features_b /\ clock' # clock)
          => { ComputedColumns(r) : r \in features' } = { ComputedColumns(r) : r \in features }]_vars

\* The feature builder has run twice on the first history and the table holds
\* rows stamped by the second run.
RerunRestamps ==
    /\ feat_done = {"a"}
    /\ clock = 3
    /\ features # {}
    /\ \A r \in features : r.created_at = 2

(***************************************************************************)
(* Rows the feature builder emits (specification SpecFeatures).            *)
(***************************************************************************)
\* The observation of hospital h that is the k-th before D: the set is empty
\* when there is none.
KthBefore(table, h, D, k) ==
    { o \in PriorObservations(table, h, D) :
        Cardinality({ q \in PriorObservations(table, h, D) : q.date > o.date }) = k - 1 }

\* Every row of feats stands on at least 4 earlier observations of its hospital
\* in obs, and its lags and rolling mean are present and are those observations.
EmittedOnFourPrior(feats, obs) ==
    \A r \in feats :
        /\ Cardinality(PriorObservations(obs, r.hospital_pk, r.date)) >= 4
        /\ r.roll_mean_4 # NaN
        /\ \A k \in 1..4 :
              LET lag == << r.lag_1, r.lag_2, r.lag_3, r.lag_4 >>[k]
              IN /\ lag # NaN
                 /\ \E o \in KthBefore(obs, r.hospital_pk, r.date, k) :
                       o.icu_occupancy_rate = lag

\* C13: a FeatureRow is emitted for (hospital, D) only if the hospital has at
\* least 4 observations dated before D; rows with fewer are dropped, not emitted
\* with filled-in values, so every emitted row has lag_1..lag_4 and roll_mean_4.
C13_FourPriorObservations ==
    /\ EmittedOnFourPrior(features, clean)
    /\ EmittedOnFourPrior(features_b, clean_b)

\* A run that dropped rows: hospital 1 has five observations and one feature row,
\* at the fifth date, and hospital 2 has an observation and no feature row; in the
\* second history a missing value leaves hospital 1 without any row.
C13_Witness ==
    /\ feat_done = {"a", "b"}
    /\ Cardinality({ o \in clean : o.hospital_pk = 1 }) = 5
    /\ { r.date : r \in { x \in features : x.hospital_pk = 1 } } = {5}
    /\ \E o \in clean : o.hospital_pk = 2
    /\ ~\E r \in features : r.hospital_pk = 2
    /\ features_b = {}

\* The observations of obs that have four earlier observations of their hospital,
\* none of the four missing, the latest of them 0.
AfterZeroLag(obs) ==
    { o \in obs :
        /\ \A k \in 1..4 :
              \E q \in KthBefore(obs, o.hospital_pk, o.date, k) : q.icu_occupancy_rate # NaN
        /\ \E q \in KthBefore(obs, o.hospital_pk, o.date, 1) : q.icu_occupancy_rate = 0 }

\* Every row of feats with lag_1 = 0 has a NULL pct_change_1, and every
\* observation of AfterZeroLag(obs) has its row in feats.
ZeroLagRows(feats, obs) ==
    /\ \A r \in feats : r.lag_1 = 0 => r.pct_change_1 = NullRatio
    /\ \A o \in AfterZeroLag(obs) :
          \E r \in feats : /\ r.hospital_pk = o.hospital_pk /\ r.date = o.date
                            /\ r.lag_1 = 0 /\ r.roll_mean_4 # NaN
                            /\ r.icu_occupancy_rate = o.icu_occupancy_rate

\* C20: in build_features every row with lag_1 = 0, whatever the current value,
\* has pct_change_1 emitted as null and never as an infinite or NaN number; the
\* run completes, and the row is kept when lag_1 and roll_mean_4 are present.
C20_ZeroLagPctNull ==
    /\ "a" \in feat_done => ZeroLagRows(features, clean)
    /\ "b" \in feat_done => ZeroLagRows(features_b, clean_b)

\* A completed run that emitted a row with lag_1 = 0 and a non-zero current
\* value, and one with lag_1 = 0 and the current value 0.
C20_Witness ==
    /\ "a" \in feat_done
    /\ \E r \in features : r.lag_1 = 0 /\ r.icu_occupancy_rate = 80 /\ r.pct_change_1 = NullRatio
    /\ \E r \in features : r.lag_1 = 0 /\ r.icu_occupancy_rate = 0 /\ r.pct_change_1 = NullRatio

(***************************************************************************)
(* The stress score (specification SpecStress).                            *)
(***************************************************************************)
\* x clipped to lo .. hi.
Clip(x, lo, hi) == IF x < lo THEN lo ELSE IF x > hi THEN hi ELSE x

\* The stated formulas on a stress-feature row, in the units of the table:
\* utilisations and the delta in hundredths, the proxy in thousandths and the
\* stress in hundredths of a point, so that 0.3 * proxy * 100 is 3 * proxy and
\* 0.2 * clip(delta / 0.10, 0, 1) * 100 is 200 * clip(delta, 0, 10).
StatedScore(r) ==
    /\ r.oxygen_risk_proxy = Clip(6 * r.icu_util + 2 * r.inpatient_util + 2 * r.covid_ratio, 0, 1000)
    /\ r.icu_util_lag1 # NaN => r.icu_delta_1w = Clip(r.icu_util - r.icu_util_lag1, 0 - 30, 30)
    /\ r.icu_util_lag1 = NaN => r.icu_delta_1w = NaN
    /\ r.stress = 50 * r.icu_util + 3 * r.oxygen_risk_proxy
                   + 200 * Clip(IF r.icu_delta_1w = NaN THEN 0 ELSE r.icu_delta_1w, 0, 10)

\* The three inputs of the row are the raw ratios of its observation, clamped
\* to [0, 1].
ClampedInputs(r, obs) ==
    \E o \in obs :
        /\ o.hospital_pk = r.hospital_pk /\ o.date = r.date
        /\ r.icu_util = Clip(o.icu_occupancy_rate, 0, 100)
        /\ r.inpatient_util =
              IF o.inpatient_occupancy_rate = NaN THEN 0 ELSE Clip(o.inpatient_occupancy_rate, 0, 100)
        /\ r.covid_ratio =
              IF o.covid_icu_burden_rate = NaN THEN 0 ELSE Clip(o.covid_icu_burden_rate, 0, 100)

\* The inputs of the score of a row.
ScoreInputs(r) == << r.icu_util, r.inpatient_util, r.covid_ratio, r.icu_delta_1w >>

\* C14: stress = 0.5 * icu_util * 100 + 0.3 * oxygen_risk_proxy * 100
\* + 0.2 * clip(icu_delta_1w / 0.10, 0, 1) * 100, with oxygen_risk_proxy =
\* clip(0.6 * icu_util + 0.2 * inpatient_util + 0.2 * covid_ratio, 0, 1),
\* icu_delta_1w = clip(icu_util - icu_util_lag1, -0.3, 0.3) and the three inputs
\* clamped to [0, 1]; it is a pure function of its inputs, and for icu_util 0.8,
\* inpatient_util 0.5, covid_ratio 0.3, icu_delta_1w 0.05 the proxy is 0.64 and
\* the stress 69.2.
C14_StressScore ==
    /\ \A r \in stress_features : StatedScore(r) /\ ClampedInputs(r, clean)
    /\ \A r \in stress_features_b : StatedScore(r) /\ ClampedInputs(r, clean_b)
    /\ \A r, q \in stress_features \cup stress_features_b :
          /\ ScoreInputs(r) = ScoreInputs(q) => r.stress = q.stress
          /\ ScoreInputs(r) = << 80, 50, 30, 5 >> =>
                r.oxygen_risk_proxy = 640 /\ r.stress = 6920

\* The table holds the row of the example, and the second history a row whose
\* raw ICU ratio of 1.3 was clamped to 1 and whose missing ratios became 0.
C14_Witness ==
    /\ \E r \in stress_features :
          ScoreInputs(r) = << 80, 50, 30, 5 >> /\ r.stress = 6920 /\ r.oxygen_risk_proxy = 640
    /\ \E r \in stress_features_b :
          /\ r.icu_util = 100 /\ r.inpatient_util = 0 /\ r.covid_ratio = 0
          /\ r.icu_delta_1w = 25

(***************************************************************************)
(* The order of the stages in a pipeline run (specification SpecPipeline). *)
(***************************************************************************)
\* The stages of the overview, in their order, each with the script that is it.
OverviewStages ==
    << "scripts/build_features_layer.py", "scripts/build_stress_features.py",
       "scripts/build_forecast_layer.py", "scripts/build_overload_predictions.py",
       "scripts/build_alert_layer.py" >>

IsStage(script) == \E i \in 1..Len(OverviewStages) : OverviewStages[i] = script

\* The stages among the scripts completed in the current run, in order.
StagesDone == SelectSeq(pipe_done, IsStage)

\* C15: in a pipeline run the stages of the overview are executed in their order,
\* each after the one before it has completed (the Feature Builder before the
\* Occupancy Forecaster reads the feature table), and a run that has finished has
\* completed the alert stage.
C15_StagesInOrder ==
    /\ \A i \in 1..Len(StagesDone) : StagesDone[i] = OverviewStages[i]
    /\ pipe_status = "finished" => Len(StagesDone) = Len(OverviewStages)

\* What the runner does: the forecast stage has completed in a run in which the
\* Feature Builder never ran.
ForecastWithoutFeatureRun ==
    /\ \E i \in 1..Len(pipe_done) : pipe_done[i] = "scripts/build_forecast_layer.py"
    /\ ~\E i \in 1..Len(pipe_done) : pipe_done[i] = "scripts/build_features_layer.py"

\* No run gets past its fourth step, whose script is not in the repository.
NeverPastOverloadStep == pipe_pc <= 4 /\ pipe_status # "finished"

(***************************************************************************)
(* Inference on incomplete rows (specification SpecSplit).                 *)
(***************************************************************************)
\* fillna(0.0) had something to fill: a feature of the row is missing.
MissingForecastFeature(row) ==
    \E f \in DOMAIN FeatureVector(row) : FeatureVector(row)[f] # row[f]
MissingOverloadFeature(row) ==
    \E f \in DOMAIN OverloadFeatures(row) : OverloadFeatures(row)[f] # row[f]

\* The hospitals of table whose latest row is missing a feature are those
\* without a row in out, and the others have rows there.
SkippedWhenMissing(table, Missing(_), out) ==
    \A h \in HospitalsOf(table) :
        Missing(LatestRow(IsIn(table, {h}))) <=> IsIn(out, {h}) = {}

\* C17: at inference a hospital whose latest row is missing a required feature
\* is skipped in that run, no forecast row and no overload row is written for
\* it, rows are written for every other hospital and the run does not abort.
C17_MissingFeatureSkipped ==
    /\ reg_status = "trained" =>
          SkippedWhenMissing(reg_train_df \cup reg_val_df, MissingForecastFeature, forecast)
    /\ cls_status = "trained" =>
          SkippedWhenMissing(cls_train_df \cup cls_val_df, MissingOverloadFeature, overload)

\* A completed forecast run that wrote four rows for a hospital whose latest
\* feature row has no pct_change_1, and a completed overload run that wrote a
\* row for a hospital whose latest row has no stress_roll6.
MissingFeaturePredicted ==
    /\ reg_status = "trained" /\ cls_status = "trained"
    /\ \E h \in HospitalsOf(features) :
          /\ LatestRow(IsIn(features, {h})).pct_change_1 = NullRatio
          /\ Cardinality(IsIn(forecast, {h})) = steps
    /\ \E h \in HospitalsOf(stress_features) :
          /\ LatestRow(IsIn(stress_features, {h})).stress_roll6 = NaN
          /\ Cardinality(IsIn(overload, {h})) = 1

\* Every completed run has written rows for every hospital of its table.
EveryHospitalPredicted ==
    /\ reg_status = "trained" =>
          \A h \in HospitalsOf(reg_train_df \cup reg_val_df) :
              Cardinality(IsIn(forecast, {h})) = steps
    /\ cls_status = "trained" =>
          \A h \in HospitalsOf(cls_train_df \cup cls_val_df) :
              Cardinality(IsIn(overload, {h})) = 1

(***************************************************************************)
(* Too few hospitals for a holdout (specification SpecSplit).  Hospitals   *)
(* only join the tables, so a table that names fewer than five now named   *)
(* fewer than five in every earlier run.                                   *)
(***************************************************************************)
\* The run of a path has so far ended in an error or not been made, nothing is
\* stored at its model path and its output table is empty.
NothingTrained(status, path, out) ==
    /\ status \in {"idle", "ValueError"}
    /\ model_files[path] = NoFile
    /\ out = {}

\* C18: with fewer than 5 distinct hospitals in the input, holdout training ends
\* in a fatal error in the regressor path and in the classifier path: no model
\* is trained or persisted and no forecast or overload row is written.
C18_FewHospitalsFatal ==
    /\ Cardinality(HospitalsOf(features)) < MIN_HOSPITALS =>
          NothingTrained(reg_status, XGB_MODEL_PATH, forecast)
    /\ Cardinality(HospitalsOf(stress_features)) < MIN_HOSPITALS =>
          NothingTrained(cls_status, RF_MODEL_PATH, overload)

\* The classifier path alone keeps to it.
ClassifierFatalOnFew ==
    Cardinality(HospitalsOf(stress_features)) < MIN_HOSPITALS =>
        NothingTrained(cls_status, RF_MODEL_PATH, overload)

\* A forecast run on three hospitals that trained on two of them, stored the
\* model and wrote twelve forecast rows.
RegressorTrainedOnFew ==
    /\ Cardinality(HospitalsOf(features)) = 3
    /\ reg_status = "trained"
    /\ Cardinality(HospitalsOf(reg_train_df)) = 2
    /\ model_files[XGB_MODEL_PATH] # NoFile
    /\ Cardinality(forecast) = 3 * steps

(***************************************************************************)
(* Stored models over several runs (specification SpecSplit).              *)
(***************************************************************************)
\* The rows written under one model_version all come from one model.
OneModelPerVersion ==
    \A p \in produced : \A q \in produced :
        p.model_version = q.model_version => p.model = q.model

\* No step changes the model stored at a path that holds one.
StoredModelKept ==
    \A path \in DOMAIN model_files :
        model_files[path] # NoFile => model_files'[path] = model_files[path]

\* C19: a persisted model is immutable: once a model is stored under a version
\* identifier, retraining never changes the model bound to that identifier or
\* stored at that path, so all rows carrying one model_version were produced by
\* the same trained model.
C19_ModelImmutable == [][StoredModelKept]_vars /\ []OneModelPerVersion

\* Two forecast runs with a hospital joining in between: the second run has
\* replaced the model at MODEL_PATH by one fitted on other rows, and both runs
\* wrote their rows under the one MODEL_VERSION.
ModelOverwritten ==
    \E p \in produced : \E q \in produced :
        /\ p.model_version = XGB_MODEL_VERSION /\ q.model_version = XGB_MODEL_VERSION
        /\ p.model.fitted_on # q.model.fitted_on
        /\ model_files[XGB_MODEL_PATH] = q.model
        /\ \A r \in forecast : r.model_version = XGB_MODEL_VERSION

(***************************************************************************)
(* A stage that fails and is run again (specification SpecRerun).          *)
(***************************************************************************)
\* The key of a row: (hospital_pk, forecast_date) in the forecast and overload
\* tables, (hospital_pk, date) in the others.
KeyOf(r) ==
    << r.hospital_pk, IF "forecast_date" \in DOMAIN r THEN r.forecast_date ELSE r.date >>

\* The table a successful run leaves: its rows, and the rows of other keys that
\* were there before.
AfterOneRun(before, rows) ==
    { old \in before : ~\E new \in rows : KeyOf(new) = KeyOf(old) } \cup rows

\* The rows a successful run of stage computes from the tables db when it runs
\* at the time now, its model stages with the models of their training.
SingleRunRows(stage, db, now) ==
    CASE stage = "features" -> StampCreated(build_features(db.clean), now)
      [] stage = "stress" -> StressFrame(db.clean)
      [] stage = "forecast" -> ForecastResults(model_files[XGB_MODEL_PATH], db.features)
      [] stage = "overload" -> OverloadResults(model_files[RF_MODEL_PATH], db.stress_features)
      [] stage = "alerts" -> AlertResults(db.clean, db.forecast)

\* C16: when a stage (features, stress features, forecast, overload predictions,
\* alerts) fails at any point of its run and is then run again to completion on
\* the same inputs, its output table is what a single successful run (made when
\* the re-run was made) would have left, and every other table is as it was
\* before the failed run.
C16_RerunAfterFailure ==
    rerun.phase = "done" =>
        LET out == OutputTable(rerun.stage)
        IN /\ Tables[out] = AfterOneRun(rerun.before[out],
                                        SingleRunRows(rerun.stage, rerun.before, clock - 1))
           /\ \A name \in DOMAIN Tables \ {out} : Tables[name] = rerun.before[name]

\* The feature stage has run, failed in a second run and completed its re-run:
\* the rows of the first run were there before the failure, and the re-run has
\* replaced them.
C16_Witness ==
    /\ rerun.phase = "done"
    /\ rerun.stage = "features"
    /\ rerun.before.features # {}
    /\ features # {}
    /\ features # rerun.before.features

\* A forecast stage that failed after its rows were computed and completed its
\* re-run, with the feature table of an earlier stage in place.
RerunOfForecast ==
    /\ rerun.phase = "done"
    /\ rerun.stage = "forecast"
    /\ rerun.before.features # {}
    /\ rerun.before.forecast = {}
    /\ Cardinality(forecast) = MIN_HOSPITALS * steps

\* A failed run leaves every table as it was when the run connected.
FailureLeavesTables ==
    rerun.phase = "failed" => Tables = rerun.before

\* A forecast run that failed after the model was stored: the tables are as
\* before, and the model of the failed run is at MODEL_PATH.
FailedRunLeftModel ==
    /\ rerun.phase = "failed"
    /\ rerun.stage = "forecast"
    /\ forecast = {}
    /\ model_files[XGB_MODEL_PATH] # NoFile

(***************************************************************************)
(* Claims about the independence of the hospitals' series (specification    *)
(* SpecSeries).                                                             *)
(***************************************************************************)
\* The observations of hospital h alone.
OwnObservations(table, h) == { o \in table : o.hospital_pk = h }

\* The rows of a feature table less their created_at stamp.
Unstamped(rows) ==
    { [ f \in (DOMAIN r) \ {"created_at"} |-> r[f] ] : r \in rows }

\* C21: in the feature builder and in the stress scorer the rows produced for a
\* hospital are those its own observations produce when no other hospital is in
\* the clean table: no lag and no rolling window of a hospital's first rows
\* holds an observation of the hospital sorted before it.
C21_SeriesIndependent ==
    /\ "a" \in feat_done =>
          \A h \in HospitalsOf(clean) :
              Unstamped(OwnObservations(features, h))
                  = build_features(OwnObservations(clean, h))
    /\ "a" \in stress_done =>
          \A h \in HospitalsOf(clean) :
              OwnObservations(stress_features, h)
                  = StressFrame(OwnObservations(clean, h))

\* Both builders have run over a table in which a hospital with feature rows
\* is sorted after another hospital.
C21_Witness ==
    /\ "a" \in feat_done
    /\ "a" \in stress_done
    /\ \E r \in features : \E o \in clean : o.hospital_pk < r.hospital_pk
    /\ \E r \in stress_features : \E o \in clean : o.hospital_pk < r.hospital_pk

(***************************************************************************)
(* Claims about the alert layer next to the overload layer (specification   *)
(* SpecAlertInputs).                                                        *)
(***************************************************************************)
\* The three alert levels of every row of the alert table.
AlertLevelsOf(table) ==
    { [ hospital_pk |-> r.hospital_pk,
        date |-> r.date,
        icu_alert_level |-> r.icu_alert_level,
        oxygen_alert_level |-> r.oxygen_alert_level,
        final_alert_level |-> r.final_alert_level ] : r \in table }

AlertsKeptWhileInputsKept ==
    (alerts # {} /\ clean' = clean /\ forecast' = forecast)
        => AlertLevelsOf(alerts') = AlertLevelsOf(alerts)

\* C22: the overload predictions do not influence the alerts: once the alert
\* layer has run, no step that leaves the observations and the forecasts as
\* they are (a write of the overload table, a further run of the alert layer
\* over a different overload table) changes the icu_alert_level, the
\* oxygen_alert_level or the final_alert_level of any hospital.
C22_OverloadNoInfluence == [][AlertsKeptWhileInputsKept]_vars

\* The alert layer has run, and a hospital that the overload table flags has a
\* final alert level below Critical.
C22_Witness ==
    /\ occ_used # {}
    /\ \E o \in overload : \E a \in alerts :
          /\ o.overload_flag = 1
          /\ a.hospital_pk = o.hospital_pk
          /\ a.final_alert_level # "Critical"

(***************************************************************************)
(* Claims about the target of the regressor (specification SpecFeatures).   *)
(***************************************************************************)
\* The feature rows of one key in the two histories whose observations differ
\* at that key only, both with an occupancy.
RowsOfChangedKey ==
    { p \in features \X features_b :
        /\ p[1].hospital_pk = p[2].hospital_pk
        /\ p[1].date = p[2].date
        /\ p[1].icu_occupancy_rate # p[2].icu_occupancy_rate
        /\ p[2].icu_occupancy_rate # NaN }

\* The features of the regressor that look back only.
PastFeatures(row) ==
    [ f \in (DOMAIN FeatureVector(row)) \ {"delta_1", "pct_change_1"} |-> FeatureVector(row)[f] ]

\* C23: none of the regressor features of the feature row of date D is a
\* function of icu_occupancy_rate at D: two histories that differ only in the
\* ICU occupancy at D give the same regressor feature vector at D.
C23_TargetNotInFeatures ==
    feat_done = {"a", "b"} =>
        \A p \in RowsOfChangedKey : FeatureVector(p[1]) = FeatureVector(p[2])

\* The lags and the rolling statistics of the two rows are equal.
C23_PastFeaturesAgree ==
    feat_done = {"a", "b"} =>
        \A p \in RowsOfChangedKey : PastFeatures(p[1]) = PastFeatures(p[2])

\* Two feature rows of one key whose delta_1 differ with the occupancy of their
\* date.
C23_DeltaFollowsTarget ==
    /\ feat_done = {"a", "b"}
    /\ \E p \in RowsOfChangedKey : p[1].delta_1 # p[2].delta_1

(***************************************************************************)
(* Claims about the lag chain of recursive_forecast (specification          *)
(* SpecForecast).                                                           *)
(***************************************************************************)
LagOf(X, j) ==
    CASE j = 1 -> X.lag_1 [] j = 2 -> X.lag_2 [] j = 3 -> X.lag_3 [] j = 4 -> X.lag_4

\* The occupancy the hospital reported for week w <= last_known_date, read off
\* the latest feature row: its own observation, and its lags for the weeks before.
ObservedAt(w) ==
    LET latest == LatestRow(features)
    IN IF w = latest.date THEN latest.icu_occupancy_rate ELSE LagOf(latest, latest.date - w)

\* The occupancy of week w: the observation up to last_known_date, the forecast
\* dated w after it.
OccupancyOfWeek(w) ==
    IF w > rf_date
    THEN LET i == CHOOSE i \in 1..Len(rf_forecasts) : rf_forecasts[i][1] = w
         IN rf_forecasts[i][2]
    ELSE ObservedAt(w)

\* C24: the four lags of the state from which the forecast for forecast_date is
\* produced are the occupancy values of the four weeks immediately before
\* forecast_date; the step-1 forecast, dated last_known_date + 1 week, is
\* computed from a state whose lag_1 is the occupancy observed at last_known_date.
C24_LagsOfPrecedingWeeks ==
    \A k \in 1..Len(rf_calls) : \A j \in 1..4 :
        LagOf(rf_calls[k].X, j) = OccupancyOfWeek(ForecastDate(rf_date, k) - j)

\* What the loop does: the lags of step k are the occupancy values of the four
\* weeks before forecast_date when the week of last_known_date is left out, the
\* observation of last_known_date itself being no lag of any step.
C24_LagsSkipLastKnownWeek ==
    \A k \in 1..Len(rf_calls) : \A j \in 1..4 :
        LagOf(rf_calls[k].X, j) =
            IF j < k THEN OccupancyOfWeek(ForecastDate(rf_date, k) - j)
            ELSE ObservedAt(ForecastDate(rf_date, k) - j - 1)

\* The first forecast has been produced from a lag_1 that is not the occupancy
\* observed at last_known_date.
C24_StaleLag ==
    /\ Len(rf_calls) >= 1
    /\ rf_calls[1].X.lag_1 # LatestRow(features).icu_occupancy_rate

(***************************************************************************)
(* Claims about the scenario multiplier and the state transition of         *)
(* recursive_forecast (specification SpecForecast).                         *)
(***************************************************************************)
\* max(0.0, min(x, 1.2)) in hundredths.
Clamp120(x) == IF x < 0 THEN 0 ELSE IF x > 120 THEN 120 ELSE x

\* rf_mult is the multiplier in tenths.
Scaled(x) == (x * rf_mult) \div 10

\* C25 as stated: at each step the raw prediction is clamped to
\* [0, 1.2] first and the clamped value is then scaled, so the emitted value is
\* SCENARIO_MULTIPLIER * clamp(raw, 0, 1.2) for every multiplier.
C25_ClampedThenScaled ==
    \A k \in 1..Len(rf_forecasts) :
        rf_forecasts[k][2] = Scaled(Clamp120(rf_calls[k].raw))

\* C25, amended: at each step the raw prediction is scaled by the multiplier
\* first and the product is then clamped to [0, 1.2], so the emitted value is
\* clamp(SCENARIO_MULTIPLIER * raw, 0, 1.2) for every multiplier.
C25_ScaledThenClamped ==
    \A k \in 1..Len(rf_forecasts) :
        rf_forecasts[k][2] = Clamp120(Scaled(rf_calls[k].raw))

\* A raw prediction of 1.4 under the multiplier 0.5 has been emitted as 0.7, and
\* a raw prediction of 0.6 under the multiplier 1.5 as 0.9.
C25_Witness ==
    \/ /\ rf_mult = 5
       /\ \E k \in 1..Len(rf_forecasts) : rf_calls[k].raw = 140 /\ rf_forecasts[k][2] = 70
       /\ \E k \in 1..Len(rf_forecasts) : rf_calls[k].raw = 60 /\ rf_forecasts[k][2] = 30
    \/ /\ rf_mult = 15
       /\ \E k \in 1..Len(rf_forecasts) : rf_calls[k].raw = 60 /\ rf_forecasts[k][2] = 90
       /\ \E k \in 1..Len(rf_forecasts) : rf_calls[k].raw = 140 /\ rf_forecasts[k][2] = 120

\* An iteration of the loop is due.
StepDue == 1 <= rf_step /\ rf_step <= rf_steps

\* The state after an iteration as the claim gives it, from the state before it
\* and the prediction the iteration emitted.  roll_mean_4 is kept as the sum of
\* the four lags.
TransitionHolds(before, pred, after) ==
    /\ after.lag_1 = pred
    /\ after.lag_2 = before.lag_1
    /\ after.lag_3 = before.lag_2
    /\ after.lag_4 = before.lag_3
    /\ after.roll_mean_4 = pred + before.lag_1 + before.lag_2 + before.lag_3
    /\ \A x \in {pred, before.lag_1, before.lag_2, before.lag_3} :
          after.roll_min_4 <= x /\ x <= after.roll_max_4
    /\ {after.roll_min_4, after.roll_max_4}
          \subseteq {pred, before.lag_1, before.lag_2, before.lag_3}
    /\ after.delta_1 = pred - before.lag_1
    /\ after.pct_change_1 = IF before.lag_1 # 0
                             THEN <<pred - before.lag_1, before.lag_1>>
                             ELSE <<0, 1>>
    /\ after.roll_std_4 = <<Dev4(<<pred, before.lag_1, before.lag_2, before.lag_3>>), 16>>
    /\ after.hospital_pk = before.hospital_pk
    /\ after.date = before.date
    /\ after.icu_occupancy_rate = before.icu_occupancy_rate

StepRecomputes ==
    (StepDue /\ rf_step' = rf_step + 1)
        => TransitionHolds(rf_row, rf_forecasts'[rf_step][2], rf_row')

\* C26: after every transition of recursive_forecast roll_mean_4, roll_min_4 and
\* roll_max_4 are the mean, the minimum and the maximum of the new lags,
\* delta_1 = lag_1 - lag_2, and pct_change_1 = (lag_1 - lag_2) / lag_2 when
\* lag_2 # 0 and 0 when lag_2 = 0; the new state is a function of the previous
\* state and the new prediction alone, and an iteration that is due can be taken
\* whatever the lags are, a zero lag included.
C26_TransitionRecomputes ==
    /\ [][StepRecomputes]_vars
    /\ [](StepDue => ENABLED (\E raw \in RawPredictions : ForecastStep(raw)))

\* An iteration has left lag_1 above 0 and lag_2 at 0, with pct_change_1 = 0, and
\* a further iteration is due.
C26_Witness ==
    /\ rf_step > 1
    /\ StepDue
    /\ rf_row.lag_1 > 0
    /\ rf_row.lag_2 = 0
    /\ rf_row.pct_change_1 = <<0, 1>>
    /\ rf_row.roll_mean_4 = rf_row.lag_1 + rf_row.lag_2 + rf_row.lag_3 + rf_row.lag_4

(***************************************************************************)
(* Claims about the two alerts of one occupancy (specification SpecAlertFn).*)
(***************************************************************************)
\* C27: with INITIAL_OXYGEN = 40 and BURN_SCALE = 15 the oxygen alert of every
\* occupancy (clamped to [0, 1.5]) is at least as severe as its ICU alert, so
\* the final alert level always equals the oxygen alert level.
C27_OxygenDominates ==
    fn_out # <<>> =>
        /\ severity_rank(fn_out[1].oxygen_alert_level) >= severity_rank(fn_out[1].icu_alert_level)
        /\ fn_out[1].final_alert_level = fn_out[1].oxygen_alert_level

\* The alerts of the occupancy 0.9, where the ICU alert turns Critical: the
\* oxygen supply lasts 3 weeks, which is Critical as well.
C27_Witness ==
    /\ fn_occ = ICU_CRITICAL
    /\ fn_out # <<>>
    /\ fn_out[1].icu_alert_level = "Critical"
    /\ fn_out[1].oxygen_weeks_remaining = OXY_CRITICAL_WEEKS
    /\ fn_out[1].final_alert_level = "Critical"

(***************************************************************************)
(* Claims about the overload classifier's labels and rows (specification    *)
(* SpecSplit).                                                              *)
(***************************************************************************)
\* The stress-feature row a row of a training or validation matrix was made of.
SourceRow(e) ==
    CHOOSE r \in stress_features : r.hospital_pk = e.hospital_pk /\ r.date = e.date

\* The matrix the stored classifier was fitted on and the matrix of the
\* validation frame of that training.
TrainingMatrix == model_files[RF_MODEL_PATH].fitted_on
ValidationMatrix == prepare_xy(cls_val_df)

\* The most recent stress-feature row of every hospital.
LatestStressRows ==
    { LatestRow(IsIn(stress_features, {h})) : h \in HospitalsOf(stress_features) }

\* C28: the training label overload_next is 1 exactly when stress_next >= 75.0,
\* the boundary included; the rows without stress_next (the most recent date of
\* each hospital) are in no training or validation matrix, but they stay in the
\* stress-feature table and are the rows the predictions are made from.
C28_LabelAndUnlabelledRows ==
    (cls_status = "trained" /\ model_files[RF_MODEL_PATH] # NoFile) =>
        /\ \A e \in TrainingMatrix \cup ValidationMatrix :
              /\ \E r \in stress_features : r.hospital_pk = e.hospital_pk /\ r.date = e.date
              /\ SourceRow(e).stress_next # NaN
              /\ e.y = 1 <=> SourceRow(e).stress_next >= STRESS_OVERLOAD_THRESHOLD
              /\ e.y \in {0, 1}
        /\ \A r \in LatestStressRows :
              /\ r.stress_next = NaN
              /\ ~\E e \in TrainingMatrix \cup ValidationMatrix :
                     e.hospital_pk = r.hospital_pk /\ e.date = r.date
        /\ \A o \in overload :
              \E r \in LatestStressRows :
                  r.hospital_pk = o.hospital_pk /\ r.date + 1 = o.forecast_date

\* A classifier has been fitted on a matrix with a row whose stress_next is
\* exactly 75.0, labelled 1, and a row labelled 0, and its predictions are
\* written.
C28_Witness ==
    /\ cls_status = "trained"
    /\ model_files[RF_MODEL_PATH] # NoFile
    /\ \E e \in TrainingMatrix :
          SourceRow(e).stress_next = STRESS_OVERLOAD_THRESHOLD /\ e.y = 1
    /\ \E e \in TrainingMatrix : e.y = 0
    /\ ValidationMatrix # {}
    /\ overload # {}

\* The stress-feature table the last completed overload run read.
OverloadInput == cls_train_df \cup cls_val_df

InRanges(r) ==
    /\ 0 <= r.icu_util /\ r.icu_util <= 100
    /\ 0 <= r.inpatient_util /\ r.inpatient_util <= 100
    /\ 0 <= r.covid_ratio /\ r.covid_ratio <= 100
    /\ 0 <= r.oxygen_risk_proxy /\ r.oxygen_risk_proxy <= 1000
    /\ r.icu_delta_1w # NaN => (0 - 30 <= r.icu_delta_1w /\ r.icu_delta_1w <= 30)
    /\ 0 <= r.stress /\ r.stress <= 10000

\* C30: in every stress-feature row written, whatever the raw ratios (values
\* above 1, missing inpatient or covid ratios, a first row without a lag),
\* icu_util, inpatient_util, covid_ratio and oxygen_risk_proxy lie in [0, 1],
\* icu_delta_1w lies in [-0.3, 0.3] when it is present, and stress in [0, 100].
C30_RowRanges ==
    \A r \in stress_features \cup stress_features_b : InRanges(r)

\* A hospital whose second week reports an inpatient ratio of 2.5, no covid
\* ratio and an ICU ratio 0.45 or more below the weeks around it: the ratios are
\* clamped, the week's delta is -0.3, the next week's 0.3, and the first week
\* has none.
C30_Witness ==
    /\ "b" \in stress_done
    /\ \E f \in stress_features_b, r \in stress_features_b, q \in stress_features_b :
          /\ f.hospital_pk = r.hospital_pk /\ q.hospital_pk = r.hospital_pk
          /\ f.date + 1 = r.date /\ r.date + 1 = q.date
          /\ f.icu_delta_1w = NaN
          /\ r.inpatient_util = 100 /\ r.covid_ratio = 0
          /\ r.icu_delta_1w = 0 - 30
          /\ q.icu_delta_1w = 30
          /\ q.stress > r.stress

====
